---- MODULE Spec2Model ----
(***************************************************************************)
(* Model of the 4-level page map of learn-os (common/src/paging/mod.rs).   *)
(*                                                                         *)
(* A u64 is modelled as the set of its set bit positions (a subset of      *)
(* 0..63): bitwise AND is intersection, OR is union, NOT is complement     *)
(* and a shift moves every position.  This keeps all 64 bits of a value.   *)
(* A table of 512 entries is the function of its non-zero entries; every   *)
(* index outside its domain holds the all-zero entry.                      *)
(***************************************************************************)
EXTENDS Integers, FiniteSets, Sequences, TLC

VARIABLES address, mem, next_page, panic, last, call,
          pc, trace, status, kernel_info, ram, cpu, locals

\* The state of the bootloader: its position in main, the positions it has
\* passed, the status main returned, the loaded kernel file, the contents of
\* the data pages, the processor's registers and the locals of main.
bootvars == <<pc, trace, status, kernel_info, ram, cpu, locals>>

vars == <<address, mem, next_page, panic, last, call, bootvars>>

-----------------------------------------------------------------------------
(* Bit-level arithmetic on u64 values.                                     *)

U64Bits == 0..63

Pow2(n) == 2 ^ n

\* The u64 holding the number n (n below 2^31).
Bits(n) == {b \in 0..30 : (n \div Pow2(b)) % 2 = 1}

RECURSIVE Val(_)
\* The number held by a u64 (for values below 2^31).
Val(S) == IF S = {} THEN 0
          ELSE LET b == CHOOSE x \in S : TRUE IN Pow2(b) + Val(S \ {b})

Shl(S, k) == {b + k : b \in S} \cap U64Bits

Shr(S, k) == {b - k : b \in {x \in S : x >= k}}

And(S, T) == S \cap T

Or(S, T) == S \cup T

Not(S) == U64Bits \ S

RECURSIVE Add(_, _)
\* S + T modulo 2^64: the sum without carries plus the carries.
Add(S, T) == IF T = {} THEN S ELSE Add((S \ T) \cup (T \ S), Shl(S \cap T, 1))

\* S > T: the highest bit in which they differ is set in S.
Gt(S, T) ==
  LET differ == (S \ T) \cup (T \ S)
  IN differ # {} /\ (CHOOSE b \in differ : \A c \in differ : c <= b) \in S

Bit(b) == {b}

x1ff == 0..8

xfff == 0..11

NoPanic == "none"

-----------------------------------------------------------------------------
(* Virtual address decomposition.                                          *)

\* address_to_page_map_indices with the last `mask >>= 9` forgotten.
address_to_page_map_indices_stale_mask(virtual_address) ==
  LET offset0 == 12 + 3 * 9
      mask0 == Shl(x1ff, offset0)
      offset1 == offset0 - 9
      mask1 == Shr(mask0, 9)
      offset2 == offset1 - 9
      mask2 == Shr(mask1, 9)
      offset3 == offset2 - 9
  IN [pml4 |-> Val(Shr(And(virtual_address, mask0), offset0)),
      pdpt |-> Val(Shr(And(virtual_address, mask1), offset1)),
      pd |-> Val(Shr(And(virtual_address, mask2), offset2)),
      pt |-> Val(Shr(And(virtual_address, mask2), offset3))]

address_to_page_map_indices(virtual_address) ==
  LET offset0 == 12 + 3 * 9
      mask0 == Shl(x1ff, offset0)
      offset1 == offset0 - 9
      mask1 == Shr(mask0, 9)
      offset2 == offset1 - 9
      mask2 == Shr(mask1, 9)
      offset3 == offset2 - 9
      mask3 == Shr(mask2, 9)
  IN [pml4 |-> Val(Shr(And(virtual_address, mask0), offset0)),
      pdpt |-> Val(Shr(And(virtual_address, mask1), offset1)),
      pd |-> Val(Shr(And(virtual_address, mask2), offset2)),
      pt |-> Val(Shr(And(virtual_address, mask3), offset3))]

page_map_indices_to_address(indices) ==
  LET v1 == Or({}, Shl(Bits(indices.pml4), 12 + 3 * 9))
      v2 == Or(v1, Shl(Bits(indices.pdpt), 12 + 2 * 9))
      v3 == Or(v2, Shl(Bits(indices.pd), 12 + 9))
      v4 == Or(v3, Shl(Bits(indices.pt), 12))
  IN v4

-----------------------------------------------------------------------------
(* Page table entries.  The four constructors share one layout: the        *)
(* address, execute-disable at bit 63, pcd at bit 4, pwt at bit 3, user    *)
(* at bit 2, writable at bit 1 and present at bit 0.  A constructor        *)
(* yields [panic, value]: panic names the assertion that failed.           *)

\* `address & 0xfff << 51 == 0` parses as `(address & (0xfff << 51)) == 0`.
RangeMask == Shl(xfff, 51)

AlignPanic == "address is not 4KiB aligned"

RangePanic == "address uses more than 52 bits"

EntryValue(execute_disable, entry_address, pcd, pwt, user, writable) ==
  LET v0 == entry_address
      v1 == IF execute_disable THEN Or(v0, Bit(63)) ELSE v0
      v2 == IF pcd THEN Or(v1, Bit(4)) ELSE v1
      v3 == IF pwt THEN Or(v2, Bit(3)) ELSE v2
      v4 == IF user THEN Or(v3, Bit(2)) ELSE v3
      v5 == IF writable THEN Or(v4, Bit(1)) ELSE v4
  IN Or(v5, Bit(0))

PML4E_new(execute_disable, pdpt_address, pcd, pwt, user, writable) ==
  IF And(pdpt_address, xfff) # {} THEN [panic |-> AlignPanic, value |-> {}]
  ELSE IF And(pdpt_address, RangeMask) # {} THEN [panic |-> RangePanic, value |-> {}]
  ELSE [panic |-> NoPanic,
        value |-> EntryValue(execute_disable, pdpt_address, pcd, pwt, user, writable)]

PDPTE_new(execute_disable, pd_address, pcd, pwt, user, writable) ==
  IF And(pd_address, xfff) # {} THEN [panic |-> AlignPanic, value |-> {}]
  ELSE IF And(pd_address, RangeMask) # {} THEN [panic |-> RangePanic, value |-> {}]
  ELSE [panic |-> NoPanic,
        value |-> EntryValue(execute_disable, pd_address, pcd, pwt, user, writable)]

PDE_new(execute_disable, pt_address, pcd, pwt, user, writable) ==
  IF And(pt_address, xfff) # {} THEN [panic |-> AlignPanic, value |-> {}]
  ELSE IF And(pt_address, RangeMask) # {} THEN [panic |-> RangePanic, value |-> {}]
  ELSE [panic |-> NoPanic,
        value |-> EntryValue(execute_disable, pt_address, pcd, pwt, user, writable)]

PTE_new(execute_disable, page_address, pcd, pwt, user, writable) ==
  IF And(page_address, xfff) # {} THEN [panic |-> AlignPanic, value |-> {}]
  ELSE IF And(page_address, RangeMask) # {} THEN [panic |-> RangePanic, value |-> {}]
  ELSE [panic |-> NoPanic,
        value |-> EntryValue(execute_disable, page_address, pcd, pwt, user, writable)]

PTE_unset == {}

\* The constructor of the entry type of a level.
Levels == {"PML4E", "PDPTE", "PDE", "PTE"}

EntryNew(level, xd, a, pcd, pwt, user, w) ==
  CASE level = "PML4E" -> PML4E_new(xd, a, pcd, pwt, user, w)
    [] level = "PDPTE" -> PDPTE_new(xd, a, pcd, pwt, user, w)
    [] level = "PDE" -> PDE_new(xd, a, pcd, pwt, user, w)
    [] level = "PTE" -> PTE_new(xd, a, pcd, pwt, user, w)


present(e) == And(e, Bit(0)) = Bit(0)

writable(e) == And(e, Bit(1)) = Bit(1)

\* Bit 63 of an entry (the code reads it through value()).
execute_disable(e) == And(e, Bit(63)) = Bit(63)

set_writable(e, value) == IF value THEN Or(e, Bit(1)) ELSE And(e, Not(Bit(1)))

set_execute_disable(e, value) == IF value THEN Or(e, Bit(63)) ELSE And(e, Not(Bit(63)))

\* pdpt_address, pd_address and pt_address: the entry without bit 63 and
\* the low 12 bits.
entry_address(e) == And(e, Not(Or(Bit(63), xfff)))

-----------------------------------------------------------------------------
(* Physical memory holding the tables.  mem maps the address of a table    *)
(* page to the table.                                                      *)

EmptyTable == [i \in {} |-> {}]

\* table[index]
Entry(table, index) == IF index \in DOMAIN table THEN table[index] ELSE {}

\* table[index] = value
WithEntry(table, index, value) ==
  LET D == IF value = {} THEN DOMAIN table \ {index} ELSE DOMAIN table \cup {index}
  IN [i \in D |-> IF i = index THEN value ELSE table[i]]

\* The entry at `index` of the table at `table_address`.
Read(m, table_address, index) == Entry(m[table_address], index)

Write(m, table_address, index, value) ==
  [m EXCEPT ![table_address] = WithEntry(@, index, value)]

\* init_memory(address as *mut u64, 512, 0)
init_memory(m, page_address) ==
  [a \in DOMAIN m \cup {page_address} |-> IF a = page_address THEN EmptyTable ELSE m[a]]

PAGE_SIZE == 4096

-----------------------------------------------------------------------------
(* The page allocator callback: a bump allocator over fresh, page-aligned  *)
(* physical pages.  next_page counts the pages handed out so far.          *)

AllocBase == 16 * PAGE_SIZE

allocate_pages(np, n) ==
  [address |-> Bits(AllocBase + np * PAGE_SIZE), next_page |-> np + n]

-----------------------------------------------------------------------------
(* PageMap                                                                 *)

VirtualAlignPanic == "virtual address isn't 4KiB aligned"

PhysicalAlignPanic == "physical address isn't 4KiB aligned"

\* PageMap::new: one page for the PML4, all 512 entries zeroed.
new(m, np) ==
  LET a == allocate_pages(np, 1)
  IN [address |-> a.address, mem |-> init_memory(m, a.address), next_page |-> a.next_page]

\* Widen assigning the requested permissions instead of only adding them.
Widen_assigning(e, writeable, executable) ==
  set_execute_disable(set_writable(e, writeable), ~executable)

\* `if writeable { e.set_writable(true) }; if executable {
\* e.set_execute_disable(false) }`
Widen(e, writeable, executable) ==
  LET WidenX(e1) == IF executable THEN set_execute_disable(e1, FALSE) ELSE e1
  IN WidenX(IF writeable THEN set_writable(e, TRUE) ELSE e)

\* The walk after the entry at `index` of the table st.table has become e:
\* e is stored and the walk moves to the table e points to.
Linked(m, np, table_address, index, e) ==
  [mem |-> Write(m, table_address, index, e), next_page |-> np, panic |-> NoPanic,
   table |-> entry_address(e)]

\* A walk stopped by a failed assertion.
Panicked(m, np, table_address, why) ==
  [mem |-> m, next_page |-> np, panic |-> why, table |-> table_address]

\* The entry `created` over the fresh table at a.address is linked, unless
\* its constructor failed.
LinkCreated(st, index, a, created, writeable, executable) ==
  IF created.panic # NoPanic
  THEN Panicked(init_memory(st.mem, a.address), a.next_page, st.table, created.panic)
  ELSE Linked(init_memory(st.mem, a.address), a.next_page, st.table, index,
              Widen(created.value, writeable, executable))

\* A missing entry created writable instead of read-only.
LinkFresh_writable(st, index, level, a, writeable, executable) ==
  LinkCreated(st, index, a, EntryNew(level, TRUE, a.address, FALSE, FALSE, FALSE, TRUE),
              writeable, executable)

\* A missing entry is created over a freshly allocated, zeroed table.
LinkFresh(st, index, level, a, writeable, executable) ==
  LinkCreated(st, index, a, EntryNew(level, TRUE, a.address, FALSE, FALSE, FALSE, FALSE),
              writeable, executable)

\* One level of the walk of set, from st = [mem, next_page, panic, table]:
\* the entry at `index` of the table st.table is created (over a fresh
\* zeroed table) when it is not present, then widened to the requested
\* permissions.
LinkEntry(st, index, level, writeable, executable) ==
  IF st.panic # NoPanic THEN st
  ELSE IF present(Read(st.mem, st.table, index))
  THEN Linked(st.mem, st.next_page, st.table, index,
              Widen(Read(st.mem, st.table, index), writeable, executable))
  ELSE LinkFresh(st, index, level, allocate_pages(st.next_page, 1), writeable, executable)

\* The leaf stored into a page table that is cleared first.
StoreLeaf_clearing_table(st, index, pte) ==
  IF st.panic # NoPanic THEN [mem |-> st.mem, next_page |-> st.next_page, panic |-> st.panic]
  ELSE IF pte.panic # NoPanic
  THEN [mem |-> st.mem, next_page |-> st.next_page, panic |-> pte.panic]
  ELSE [mem |-> [st.mem EXCEPT ![st.table] = WithEntry(EmptyTable, index, pte.value)],
        next_page |-> st.next_page, panic |-> NoPanic]

\* The last step of set: the leaf entry is constructed and stored.
StoreLeaf(st, index, pte) ==
  IF st.panic # NoPanic THEN [mem |-> st.mem, next_page |-> st.next_page, panic |-> st.panic]
  ELSE IF pte.panic # NoPanic
  THEN [mem |-> st.mem, next_page |-> st.next_page, panic |-> pte.panic]
  ELSE [mem |-> Write(st.mem, st.table, index, pte.value),
        next_page |-> st.next_page, panic |-> NoPanic]

\* The walk of PageMap::set after its two alignment assertions, as
\* [mem, next_page, panic].
set_walk(self, m, np, virtual_page_address, physical_page_address, flags) ==
  LET writeable == flags.writeable
      executable == flags.executable
      page_map_indices == address_to_page_map_indices(virtual_page_address)
      s0 == [mem |-> m, next_page |-> np, panic |-> NoPanic, table |-> self]
      s1 == LinkEntry(s0, page_map_indices.pml4, "PML4E", writeable, executable)
      s2 == LinkEntry(s1, page_map_indices.pdpt, "PDPTE", writeable, executable)
      s3 == LinkEntry(s2, page_map_indices.pd, "PDE", writeable, executable)
  IN StoreLeaf(s3, page_map_indices.pt,
               PTE_new(~executable, physical_page_address, FALSE, FALSE, FALSE, writeable))

\* PageMap::set without its assertion on the physical address: the entry
\* constructor is left to reject it.
set_unchecked_physical(self, m, np, virtual_page_address, physical_page_address, flags) ==
  IF And(virtual_page_address, Not(xfff)) # virtual_page_address
  THEN [mem |-> m, next_page |-> np, panic |-> VirtualAlignPanic]
  ELSE set_walk(self, m, np, virtual_page_address, physical_page_address, flags)

\* PageMap::set, as [mem, next_page, panic].
set(self, m, np, virtual_page_address, physical_page_address, flags) ==
  IF And(virtual_page_address, Not(xfff)) # virtual_page_address
  THEN [mem |-> m, next_page |-> np, panic |-> VirtualAlignPanic]
  ELSE IF And(physical_page_address, Not(xfff)) # physical_page_address
  THEN [mem |-> m, next_page |-> np, panic |-> PhysicalAlignPanic]
  ELSE set_walk(self, m, np, virtual_page_address, physical_page_address, flags)

\* PageMap::unset clearing the slot of the page directory index instead of
\* the page table index.
unset_wrong_index(self, m, virtual_page_address) ==
  IF And(virtual_page_address, Not(xfff)) # virtual_page_address
  THEN [mem |-> m, panic |-> VirtualAlignPanic]
  ELSE
    LET indices == address_to_page_map_indices(virtual_page_address)
        pml4e == Read(m, self, indices.pml4)
        pdpte == Read(m, entry_address(pml4e), indices.pdpt)
        pde == Read(m, entry_address(pdpte), indices.pd)
    IN IF ~present(pml4e) THEN [mem |-> m, panic |-> NoPanic]
       ELSE IF ~present(pdpte) THEN [mem |-> m, panic |-> NoPanic]
       ELSE IF ~present(pde) THEN [mem |-> m, panic |-> NoPanic]
       ELSE [mem |-> Write(m, entry_address(pde), indices.pd, PTE_unset),
             panic |-> NoPanic]

\* PageMap::unset flipping the present bit of the leaf instead of clearing
\* the leaf.
unset_toggle(self, m, virtual_page_address) ==
  IF And(virtual_page_address, Not(xfff)) # virtual_page_address
  THEN [mem |-> m, panic |-> VirtualAlignPanic]
  ELSE
    LET indices == address_to_page_map_indices(virtual_page_address)
        pml4e == Read(m, self, indices.pml4)
        pdpte == Read(m, entry_address(pml4e), indices.pdpt)
        pde == Read(m, entry_address(pdpte), indices.pd)
        pte == Read(m, entry_address(pde), indices.pt)
    IN IF ~present(pml4e) THEN [mem |-> m, panic |-> NoPanic]
       ELSE IF ~present(pdpte) THEN [mem |-> m, panic |-> NoPanic]
       ELSE IF ~present(pde) THEN [mem |-> m, panic |-> NoPanic]
       ELSE [mem |-> Write(m, entry_address(pde), indices.pt,
                           (pte \ Bit(0)) \cup (Bit(0) \ pte)),
             panic |-> NoPanic]

\* PageMap::unset unlinking the page table once its last leaf is cleared.
unset_reclaiming(self, m, virtual_page_address) ==
  IF And(virtual_page_address, Not(xfff)) # virtual_page_address
  THEN [mem |-> m, panic |-> VirtualAlignPanic]
  ELSE
    LET indices == address_to_page_map_indices(virtual_page_address)
        pml4e == Read(m, self, indices.pml4)
        pdpte == Read(m, entry_address(pml4e), indices.pdpt)
        pde == Read(m, entry_address(pdpte), indices.pd)
    IN IF ~present(pml4e) THEN [mem |-> m, panic |-> NoPanic]
       ELSE IF ~present(pdpte) THEN [mem |-> m, panic |-> NoPanic]
       ELSE IF ~present(pde) THEN [mem |-> m, panic |-> NoPanic]
       ELSE IF DOMAIN m[entry_address(pde)] \subseteq {indices.pt}
       THEN [mem |-> Write(Write(m, entry_address(pde), indices.pt, PTE_unset),
                           entry_address(pdpte), indices.pd, {}),
             panic |-> NoPanic]
       ELSE [mem |-> Write(m, entry_address(pde), indices.pt, PTE_unset),
             panic |-> NoPanic]

\* PageMap::unset, as [mem, panic].
unset(self, m, virtual_page_address) ==
  IF And(virtual_page_address, Not(xfff)) # virtual_page_address
  THEN [mem |-> m, panic |-> VirtualAlignPanic]
  ELSE
    LET indices == address_to_page_map_indices(virtual_page_address)
        pml4e == Read(m, self, indices.pml4)
        pdpte == Read(m, entry_address(pml4e), indices.pdpt)
        pde == Read(m, entry_address(pdpte), indices.pd)
    IN IF ~present(pml4e) THEN [mem |-> m, panic |-> NoPanic]
       ELSE IF ~present(pdpte) THEN [mem |-> m, panic |-> NoPanic]
       ELSE IF ~present(pde) THEN [mem |-> m, panic |-> NoPanic]
       ELSE [mem |-> Write(m, entry_address(pde), indices.pt, PTE_unset),
             panic |-> NoPanic]

\* The indices of the present entries of the table at t (filter_map over
\* the entries' pdpt()/pd()/pt(), filter on present()).
PresentIndices(m, t) == {x \in DOMAIN m[t] : present(m[t][x])}

\* The table the entry at index i of table t points to.
Child(m, t, i) == entry_address(Read(m, t, i))

\* The present leaf entries the 4-level iteration of size and debug reaches,
\* as index paths.
PresentLeaves(self, m) ==
  UNION { LET pdpt == Child(m, self, i) IN
    UNION { LET pd == Child(m, pdpt, j) IN
      UNION { LET pt == Child(m, pd, k) IN
        { <<i, j, k, l>> : l \in PresentIndices(m, pt) }
      : k \in PresentIndices(m, pd) }
    : j \in PresentIndices(m, pdpt) }
  : i \in PresentIndices(m, self) }

\* PageMap::size
size(self, m) == Cardinality(PresentLeaves(self, m)) * PAGE_SIZE

RECURSIVE Ascending(_)
\* The indices of S in the order in which iter().enumerate() yields them.
Ascending(S) ==
  IF S = {} THEN <<>>
  ELSE LET x == CHOOSE y \in S : \A z \in S : y <= z IN <<x>> \o Ascending(S \ {x})

RECURSIVE Flatten(_)
\* The visits of consecutive loop iterations, one after the other.
Flatten(visits) == IF visits = <<>> THEN <<>> ELSE Head(visits) \o Flatten(Tail(visits))

\* A traversal that reports the address of the page table's first page for
\* every leaf.
debug_pt_first_page(m, pt, pml4_index, pdpt_index, pd_index) ==
  LET present_indices == Ascending(PresentIndices(m, pt))
  IN [n \in 1..Len(present_indices) |->
        [fn |-> "debug_pte", index |-> present_indices[n],
         address |-> page_map_indices_to_address(
                       [pml4 |-> pml4_index, pdpt |-> pdpt_index, pd |-> pd_index,
                        pt |-> 0]),
         entry |-> Read(m, pt, present_indices[n])]]

\* The calls of debug_pte for the present entries of the page table pt.
debug_pt(m, pt, pml4_index, pdpt_index, pd_index) ==
  LET present_indices == Ascending(PresentIndices(m, pt))
  IN [n \in 1..Len(present_indices) |->
        [fn |-> "debug_pte", index |-> present_indices[n],
         address |-> page_map_indices_to_address(
                       [pml4 |-> pml4_index, pdpt |-> pdpt_index, pd |-> pd_index,
                        pt |-> present_indices[n]]),
         entry |-> Read(m, pt, present_indices[n])]]

debug_pd(m, pd, pml4_index, pdpt_index) ==
  LET present_indices == Ascending(PresentIndices(m, pd))
  IN Flatten([n \in 1..Len(present_indices) |->
        <<[fn |-> "debug_pde", index |-> present_indices[n],
           entry |-> Read(m, pd, present_indices[n])]>>
        \o debug_pt(m, Child(m, pd, present_indices[n]), pml4_index, pdpt_index,
                    present_indices[n])])

debug_pdpt(m, pdpt_address, pml4_index) ==
  LET present_indices == Ascending(PresentIndices(m, pdpt_address))
  IN Flatten([n \in 1..Len(present_indices) |->
        <<[fn |-> "debug_pdpte", index |-> present_indices[n],
           entry |-> Read(m, pdpt_address, present_indices[n])]>>
        \o debug_pd(m, Child(m, pdpt_address, present_indices[n]), pml4_index,
                    present_indices[n])])

\* The sequence of visitor calls that debug makes.
debug(self, m) ==
  LET present_indices == Ascending(PresentIndices(m, self))
  IN Flatten([n \in 1..Len(present_indices) |->
        <<[fn |-> "debug_pml4e", index |-> present_indices[n],
           entry |-> Read(m, self, present_indices[n])]>>
        \o debug_pdpt(m, Child(m, self, present_indices[n]), present_indices[n])])

-----------------------------------------------------------------------------
(* Table accessors by mode.                                                *)

\* The u64 written with the given hexadecimal digits, most significant first.
RECURSIVE Hex(_)
Hex(digits) ==
  IF digits = <<>> THEN {}
  ELSE Or(Shl(Hex(SubSeq(digits, 1, Len(digits) - 1)), 4), Bits(digits[Len(digits)]))

IndexPanic == "PML4 index > 511"

\* 0x0007_ffff_f000
pml4_mut(self, mode) ==
  IF mode = "Active" THEN Hex(<<0, 0, 0, 7, 15, 15, 15, 15, 15, 0, 0, 0>>) ELSE self

\* 0x0007_ffff_f000
pml4(self, mode) ==
  IF mode = "Active" THEN Hex(<<0, 0, 0, 7, 15, 15, 15, 15, 15, 0, 0, 0>>) ELSE self

\* 0x007f_ffe0_0000_u64 | (pml4_index as u64)
pdpt_mut(self, m, mode, pml4_index) ==
  IF ~(pml4_index < 2 ^ 9) THEN [panic |-> IndexPanic, address |-> {}]
  ELSE IF mode = "Active"
  THEN [panic |-> NoPanic,
        address |-> Or(Hex(<<0, 0, 7, 15, 15, 15, 14, 0, 0, 0, 0, 0>>), Bits(pml4_index))]
  ELSE [panic |-> NoPanic,
        address |-> entry_address(Read(m, pml4_mut(self, "Inactive"), pml4_index))]

\* 0x0007_ffe0_0000_u64 | (pml4_index as u64)
pdpt(self, m, mode, pml4_index) ==
  IF ~(pml4_index < 2 ^ 9) THEN [panic |-> IndexPanic, address |-> {}]
  ELSE IF mode = "Active"
  THEN [panic |-> NoPanic,
        address |-> Or(Hex(<<0, 0, 0, 7, 15, 15, 14, 0, 0, 0, 0, 0>>), Bits(pml4_index))]
  ELSE [panic |-> NoPanic,
        address |-> entry_address(Read(m, pml4(self, "Inactive"), pml4_index))]

PdptIndexPanic == "PDPT index > 511"

\* `mask << 9;` and `mask << 12;` are expression statements: their values
\* are dropped and mask is pml4_index | pdpt_index.
\* 0x007f_c000_0000_u64 | mask
pd_mut(self, m, mode, pml4_index, pdpt_index) ==
  IF ~(pml4_index < 2 ^ 9) THEN [panic |-> IndexPanic, address |-> {}]
  ELSE IF ~(pdpt_index < 2 ^ 9) THEN [panic |-> PdptIndexPanic, address |-> {}]
  ELSE IF mode = "Active"
  THEN [panic |-> NoPanic,
        address |-> Or(Hex(<<0, 0, 7, 15, 12, 0, 0, 0, 0, 0, 0, 0>>),
                       Or(Bits(pml4_index), Bits(pdpt_index)))]
  ELSE [panic |-> NoPanic,
        address |-> entry_address(Read(m, pdpt_mut(self, m, "Inactive", pml4_index).address,
                                       pdpt_index))]

-----------------------------------------------------------------------------
(* The v0 executable format (common/src/exe/v0.rs).  A buffer is a         *)
(* sequence of bytes; byte offset k of the buffer is element k + 1.        *)

\* ASCII encoding of the letters `learn-os`.
MAGIC_BYTES == <<108, 101, 97, 114, 110, 45, 111, 115>>

VERSION == 0

VERSION_OFFSET == 8

CODE_INFO_OFFSET == 10

RODATA_INFO_OFFSET == 34

RWDATA_INFO_OFFSET == 58

SegmentInfo_ENCODED_SIZE == 8 + 8 + 8

Header_ENCODED_SIZE == 8 + 2 + 3 * SegmentInfo_ENCODED_SIZE

\* buffer[from..to]
Slice(buffer, from, to) == SubSeq(buffer, from + 1, to)

u16_from_le_bytes(bytes) == bytes[1] + 256 * bytes[2]

u64_from_le_bytes(bytes) == UNION {Shl(Bits(bytes[i]), 8 * (i - 1)) : i \in 1..8}

magic_bytes(buffer) == Slice(buffer, 0, 8)

version(buffer) == u16_from_le_bytes(Slice(buffer, VERSION_OFFSET, VERSION_OFFSET + 2))

\* A parser that checks the version before the magic bytes.
parse_version_first(buffer) ==
  IF Len(buffer) < Header_ENCODED_SIZE
  THEN [err |-> "Length", minimum_length |-> Header_ENCODED_SIZE,
        actual_length |-> Len(buffer)]
  ELSE IF version(buffer) # VERSION
  THEN [err |-> "Version", expected |-> 0, actual |-> version(buffer)]
  ELSE IF magic_bytes(buffer) # MAGIC_BYTES
  THEN [err |-> "MagicBytes", expected |-> MAGIC_BYTES, actual |-> magic_bytes(buffer)]
  ELSE [err |-> "Ok", buffer |-> buffer]

parse(buffer) ==
  IF Len(buffer) < Header_ENCODED_SIZE
  THEN [err |-> "Length", minimum_length |-> Header_ENCODED_SIZE,
        actual_length |-> Len(buffer)]
  ELSE IF magic_bytes(buffer) # MAGIC_BYTES
  THEN [err |-> "MagicBytes", expected |-> MAGIC_BYTES, actual |-> magic_bytes(buffer)]
  ELSE IF version(buffer) # VERSION
  THEN [err |-> "Version", expected |-> 0, actual |-> version(buffer)]
  ELSE [err |-> "Ok", buffer |-> buffer]

\* A descriptor that reads its fields in the order start, load address, size.
SegmentInfo_from_swapped(value) ==
  [start |-> u64_from_le_bytes(Slice(value, 0, 8)),
   size |-> u64_from_le_bytes(Slice(value, 16, 16 + 8)),
   load_address |-> u64_from_le_bytes(Slice(value, 8, 8 + 8))]

SegmentInfo_from(value) ==
  [start |-> u64_from_le_bytes(Slice(value, 0, 8)),
   size |-> u64_from_le_bytes(Slice(value, 8, 8 + 8)),
   load_address |-> u64_from_le_bytes(Slice(value, 16, 16 + 8))]

code_info(buffer) ==
  SegmentInfo_from(Slice(buffer, CODE_INFO_OFFSET, CODE_INFO_OFFSET + SegmentInfo_ENCODED_SIZE))

rodata_info(buffer) ==
  SegmentInfo_from(Slice(buffer, RODATA_INFO_OFFSET,
                         RODATA_INFO_OFFSET + SegmentInfo_ENCODED_SIZE))

rwdata_info(buffer) ==
  SegmentInfo_from(Slice(buffer, RWDATA_INFO_OFFSET,
                         RWDATA_INFO_OFFSET + SegmentInfo_ENCODED_SIZE))

SlicePanic == "range out of bounds for slice"

\* A usize that is at most the length of any buffer of the model.
Small(S) == S \subseteq 0..30

\* A range that yields an empty slice where the range is out of bounds.
Range_clamping(buffer, start, length) ==
  IF Small(start) /\ Small(length) /\ Val(start) + Val(length) <= Len(buffer)
  THEN [panic |-> NoPanic, bytes |-> Slice(buffer, Val(start), Val(start) + Val(length))]
  ELSE [panic |-> NoPanic, bytes |-> <<>>]

\* &buffer[start..(start + size)]: the sum overflows or the range ends past
\* the buffer exactly when start + size exceeds the length, and each of
\* these panics.
Range(buffer, start, length) ==
  IF Small(start) /\ Small(length) /\ Val(start) + Val(length) <= Len(buffer)
  THEN [panic |-> NoPanic, bytes |-> Slice(buffer, Val(start), Val(start) + Val(length))]
  ELSE [panic |-> SlicePanic, bytes |-> <<>>]

code(buffer) == Range(buffer, code_info(buffer).start, code_info(buffer).size)

rodata(buffer) == Range(buffer, rodata_info(buffer).start, rodata_info(buffer).size)

rwdata(buffer) == Range(buffer, rwdata_info(buffer).start, rwdata_info(buffer).size)

SegmentNames == {"code", "rodata", "rwdata"}

\* The descriptor and the bytes of the named segment.
segment_info(name, buffer) ==
  CASE name = "code" -> code_info(buffer)
    [] name = "rodata" -> rodata_info(buffer)
    [] name = "rwdata" -> rwdata_info(buffer)

segment_data(name, buffer) ==
  CASE name = "code" -> code(buffer)
    [] name = "rodata" -> rodata(buffer)
    [] name = "rwdata" -> rwdata(buffer)

-----------------------------------------------------------------------------
(* The page map under arbitrary sequences of set and unset.                *)

\* How many virtual pages the calls choose among.
NumVirtualPages == 2

\* The virtual page with the given four table indices.
VirtualPage(a, b, c, d) ==
  Shl(Bits(a), 39) \cup Shl(Bits(b), 30) \cup Shl(Bits(c), 21) \cup Shl(Bits(d), 12)

\* Valid 48-bit virtual pages: the first two share one page table (the
\* stack page and the kernel entry page of the bootloader), the third lies
\* under the last PML4 slot, the fourth shares only the PML4 entry with the
\* first.
PageList ==
  <<VirtualPage(0, 0, 0, 0), VirtualPage(0, 0, 0, 1), VirtualPage(511, 0, 0, 0),
    VirtualPage(0, 1, 0, 0)>>

VirtualPages == {PageList[i] : i \in 1..NumVirtualPages}

\* A physical page below 2^51.
PhysicalPages == {Bits(5 * PAGE_SIZE)}

\* Page-aligned physical addresses with a bit at 51, 52 and 63.
WidePhysicalPages == {Bit(51) \cup Bit(12), Bit(63) \cup Bit(12)}

\* Addresses with low bits set.
Misaligned == {Bit(0) \cup Bit(12)}

AllFlags == [writeable : BOOLEAN, executable : BOOLEAN]

NoSet == [kind |-> "none"]

\* The bootloader is not running.
NotBooting ==
  /\ pc = "none"
  /\ trace = <<>>
  /\ status = "none"
  /\ kernel_info = [size |-> 0]
  /\ ram = EmptyTable
  /\ cpu = [interrupts |-> TRUE]
  /\ locals = [fn |-> "none"]

Init ==
  LET pm == new(EmptyTable, 0)
  IN /\ address = pm.address
     /\ mem = pm.mem
     /\ next_page = pm.next_page
     /\ panic = NoPanic
     /\ last = [v \in VirtualPages |-> NoSet]
     /\ call = [fn |-> "PageMap::new"]
     /\ NotBooting

\* The state after a call of set or unset that returned r.
Returns(r, v, entry) ==
  /\ mem' = r.mem
  /\ panic' = r.panic
  /\ last' = IF r.panic = NoPanic /\ v \in VirtualPages
             THEN [last EXCEPT ![v] = entry]
             ELSE last
  /\ UNCHANGED <<address, call, bootvars>>

SetReturns(r, v, p, flags) ==
  /\ Returns(r, v, [kind |-> "set", physical |-> p, flags |-> flags])
  /\ next_page' = r.next_page

\* A call of set; no call follows a panic.
Set(v, p, flags) ==
  /\ panic = NoPanic
  /\ SetReturns(set(address, mem, next_page, v, p, flags), v, p, flags)

\* A call of unset.
Unset(v) ==
  /\ panic = NoPanic
  /\ Returns(unset(address, mem, v), v, [kind |-> "unset"])
  /\ UNCHANGED next_page

Next ==
  \/ \E v \in VirtualPages \cup Misaligned,
        p \in PhysicalPages \cup WidePhysicalPages \cup Misaligned,
        flags \in AllFlags : Set(v, p, flags)
  \/ \E v \in VirtualPages \cup Misaligned : Unset(v)

Spec == Init /\ [][Next]_vars

-----------------------------------------------------------------------------
(* Single calls of the address and entry functions on a fresh page map.    *)
(* call records the function, its arguments and what it returned.          *)

\* Table indices the calls choose among.
IndexSamples == {0, 1, 31, 256, 511}

\* Page offsets the calls choose among.
OffsetSamples == {{}, Bit(0), Bit(11), xfff}

\* Virtual addresses: the 48-bit addresses over the sampled indices and
\* offsets, and two addresses wider than 48 bits.
AddressSamples ==
  {VirtualPage(a, b, c, d) \cup o :
     a \in IndexSamples, b \in IndexSamples, c \in IndexSamples, d \in IndexSamples,
     o \in OffsetSamples}
  \cup {Bit(48) \cup Bit(12), Bit(63) \cup Bit(12)}

IndexTuples == [pml4 : IndexSamples, pdpt : IndexSamples, pd : IndexSamples, pt : IndexSamples]

Modes == {"Active", "Inactive"}

\* u16 indices, in and out of range.
Pml4IndexSamples == IndexSamples \cup {2, 510, 512}

\* Entry addresses: aligned and misaligned, with and without bits at 50,
\* 51, 52, 62 and 63.
EntryAddressSamples ==
  {low \cup high :
     low \in {{}, Bit(12), Bit(12) \cup Bit(30), Bit(0), Bit(11) \cup Bit(12)},
     high \in {{}, Bit(50), Bit(51), Bit(52), Bit(62), Bit(63), 12..50}}

\* The little-endian bytes of a number below 2^31.
Le(n, k) == [i \in 1..k |-> IF i > 4 THEN 0 ELSE (n \div (256 ^ (i - 1))) % 256]

Descriptor(start, size_, load_address) == Le(start, 8) \o Le(size_, 8) \o Le(load_address, 8)

\* File contents after the header: no two neighbouring bytes agree.
Body(n) == [j \in 1..n |-> (7 * j + 3) % 256]

\* The three descriptors of a header: the sample of the format's tests; 72
\* distinct bytes; ranges that end past a buffer of 92 bytes; a start of
\* 2^64 - 1; three disjoint ranges inside the buffer.
DescriptorSamples ==
  {Descriptor(82, 4, 4096) \o Descriptor(86, 0, 8192) \o Descriptor(86, 2, 12288),
   [i \in 1..72 |-> i],
   Descriptor(82, 100, 4096) \o Descriptor(90, 3, 8192) \o Descriptor(92, 0, 12288),
   [i \in 1..8 |-> 255] \o Le(2, 8) \o Le(4096, 8)
     \o Descriptor(83, 1, 8192) \o Descriptor(84, 8, 12288),
   Descriptor(82, 3, 4096) \o Descriptor(85, 2, 8192) \o Descriptor(87, 3, 12288)}

MagicSamples ==
  {MAGIC_BYTES, [MAGIC_BYTES EXCEPT ![1] = 76], [MAGIC_BYTES EXCEPT ![8] = 0]}

VersionSamples == {<<0, 0>>, <<1, 0>>, <<0, 1>>, <<255, 255>>}

HeaderSamples ==
  {magic \o v \o d : magic \in MagicSamples, v \in VersionSamples, d \in DescriptorSamples}

\* Buffers of 82 and 92 bytes and their prefixes of 0, 70 and 81 bytes.
BufferSamples ==
  LET full == {h \o Body(n) : h \in HeaderSamples, n \in {0, 10}}
  IN full \cup {SubSeq(b, 1, k) : b \in full, k \in {0, 70, 81}}

\* No call has been made yet.
Fresh == call = [fn |-> "PageMap::new"]

CallDecompose(a) ==
  /\ Fresh
  /\ call' = [fn |-> "address_to_page_map_indices", arg |-> a,
               ret |-> address_to_page_map_indices(a)]
  /\ UNCHANGED <<address, mem, next_page, panic, last, bootvars>>

CallRecompose(ix) ==
  /\ Fresh
  /\ call' = [fn |-> "page_map_indices_to_address", arg |-> ix,
               ret |-> page_map_indices_to_address(ix)]
  /\ UNCHANGED <<address, mem, next_page, panic, last, bootvars>>

CallPml4(mode) ==
  /\ Fresh
  /\ call' = [fn |-> "pml4", mode |-> mode, ret |-> pml4(address, mode)]
  /\ UNCHANGED <<address, mem, next_page, panic, last, bootvars>>

CallPml4Mut(mode) ==
  /\ Fresh
  /\ call' = [fn |-> "pml4_mut", mode |-> mode, ret |-> pml4_mut(address, mode)]
  /\ UNCHANGED <<address, mem, next_page, panic, last, bootvars>>

CallPdpt(mode, k) ==
  /\ Fresh
  /\ call' = [fn |-> "pdpt", mode |-> mode, pml4_index |-> k,
               ret |-> pdpt(address, mem, mode, k)]
  /\ UNCHANGED <<address, mem, next_page, panic, last, bootvars>>

CallPdptMut(mode, k) ==
  /\ Fresh
  /\ call' = [fn |-> "pdpt_mut", mode |-> mode, pml4_index |-> k,
               ret |-> pdpt_mut(address, mem, mode, k)]
  /\ UNCHANGED <<address, mem, next_page, panic, last, bootvars>>

CallEntryNew(level, xd, a, pcd, pwt, user, w) ==
  /\ Fresh
  /\ call' = [fn |-> "new", level |-> level, execute_disable |-> xd, address |-> a,
               pcd |-> pcd, pwt |-> pwt, user |-> user, writable |-> w,
               ret |-> EntryNew(level, xd, a, pcd, pwt, user, w)]
  /\ UNCHANGED <<address, mem, next_page, panic, last, bootvars>>

CallParse(buffer) ==
  /\ Fresh
  /\ call' = [fn |-> "parse", buffer |-> buffer, ret |-> parse(buffer)]
  /\ UNCHANGED <<address, mem, next_page, panic, last, bootvars>>

\* The methods of Exe are called on a buffer that parse accepted.
CallSegmentInfo(name, buffer) ==
  /\ Fresh
  /\ parse(buffer).err = "Ok"
  /\ call' = [fn |-> "info", segment |-> name, buffer |-> buffer,
               ret |-> segment_info(name, buffer)]
  /\ UNCHANGED <<address, mem, next_page, panic, last, bootvars>>

CallSegment(name, buffer) ==
  /\ Fresh
  /\ parse(buffer).err = "Ok"
  /\ call' = [fn |-> "segment", segment |-> name, buffer |-> buffer,
               ret |-> segment_data(name, buffer)]
  /\ UNCHANGED <<address, mem, next_page, panic, last, bootvars>>

PdMutCalled(before, mode, k, j) ==
  call' = [fn |-> "pd_mut", mode |-> mode, pml4_index |-> k, pdpt_index |-> j,
           ret |-> pd_mut(address, before.mem, mode, k, j)]

\* pd_mut is called on the page map in which the page at 0x0 has been
\* mapped; in Inactive mode it follows the PML4 entry, which must point to
\* a PDPT.
CallPdMut(mode, k, j) ==
  /\ Fresh
  /\ (mode = "Inactive" /\ k < 512 /\ j < 512) => k = 0
  /\ PdMutCalled(set(address, mem, next_page, {}, Bits(5 * PAGE_SIZE),
                     [writeable |-> FALSE, executable |-> FALSE]),
                 mode, k, j)
  /\ UNCHANGED <<address, mem, next_page, panic, last, bootvars>>

\* Virtual pages for a second call of set: the page of the first call, a
\* page under the same page table, under the same page directory, under the
\* same PDPT and under another PML4 entry.
SetSamples ==
  {VirtualPage(0, 0, 0, 0), VirtualPage(0, 0, 0, 1), VirtualPage(0, 0, 1, 0),
   VirtualPage(0, 1, 0, 0), VirtualPage(511, 0, 0, 0)}

SetCalled(before, v, p, flags) ==
  call' = [fn |-> "set", before |-> before, virtual_page_address |-> v,
           physical_page_address |-> p, flags |-> flags,
           ret |-> set(address, before.mem, before.next_page, v, p, flags)]

\* set is called on the page map in which one page has been mapped
\* read-only.
CallSet(first, v, p, flags) ==
  /\ Fresh
  /\ SetCalled(set(address, mem, next_page, first, Bits(5 * PAGE_SIZE),
                   [writeable |-> FALSE, executable |-> FALSE]),
               v, p, flags)
  /\ UNCHANGED <<address, mem, next_page, panic, last, bootvars>>

UnsetCalled(before, v) ==
  call' = [fn |-> "unset", before |-> before, virtual_page_address |-> v,
           ret |-> unset(address, before.mem, v)]

\* The page map after set(first, .., read-only) and set(second, .., W).
TwoPages(r, second) ==
  set(address, r.mem, r.next_page, second, Bits(6 * PAGE_SIZE),
      [writeable |-> TRUE, executable |-> FALSE])

\* unset is called on the page map in which two pages have been mapped.
CallUnset(first, second, v) ==
  /\ Fresh
  /\ UnsetCalled(TwoPages(set(address, mem, next_page, first, Bits(5 * PAGE_SIZE),
                              [writeable |-> FALSE, executable |-> FALSE]),
                          second),
                 v)
  /\ UNCHANGED <<address, mem, next_page, panic, last, bootvars>>

NextCalls ==
  \/ \E a \in AddressSamples : CallDecompose(a)
  \/ \E ix \in IndexTuples : CallRecompose(ix)
  \/ \E mode \in Modes : CallPml4(mode)
  \/ \E mode \in Modes : CallPml4Mut(mode)
  \/ \E mode \in Modes, k \in Pml4IndexSamples : CallPdpt(mode, k)
  \/ \E mode \in Modes, k \in Pml4IndexSamples : CallPdptMut(mode, k)
  \/ \E level \in Levels, a \in EntryAddressSamples, xd, pcd, pwt, user, w \in BOOLEAN :
        CallEntryNew(level, xd, a, pcd, pwt, user, w)
  \/ \E buffer \in BufferSamples : CallParse(buffer)
  \/ \E name \in SegmentNames, buffer \in BufferSamples : CallSegmentInfo(name, buffer)
  \/ \E name \in SegmentNames, buffer \in BufferSamples : CallSegment(name, buffer)
  \/ \E first \in SetSamples, v \in SetSamples \cup Misaligned,
        p \in PhysicalPages \cup WidePhysicalPages \cup Misaligned, flags \in AllFlags :
        CallSet(first, v, p, flags)
  \/ \E first \in SetSamples, second \in SetSamples, v \in SetSamples \cup Misaligned :
        CallUnset(first, second, v)
  \/ \E mode \in Modes, k \in Pml4IndexSamples, j \in Pml4IndexSamples : CallPdMut(mode, k, j)

SpecCalls == Init /\ [][NextCalls]_vars

-----------------------------------------------------------------------------
(* The registers (common/src/registers/mod.rs) and the bootloader          *)
(* (bootloader/src/main.rs).                                               *)

\* CR0.PG, CR4.PAE, CR4.LA57 and IA32_EFER.LME.
pg(cr0) == And(cr0, Bit(31)) = Bit(31)

pae(cr4) == And(cr4, Bit(5)) = Bit(5)

la57(cr4) == And(cr4, Bit(12)) = Bit(12)

lme(ia32_efer) == And(ia32_efer, Bit(8)) = Bit(8)

SetAddressPanic == "address isn't 4KiB aligned"

\* CR3::set_address replacing the whole register by the address.
set_address_clearing(cr3, value) ==
  IF And(value, Not(xfff)) # value
  THEN [panic |-> SetAddressPanic, cr3 |-> cr3]
  ELSE [panic |-> NoPanic, cr3 |-> value]

\* CR3::set_address on the value read from the register, as [panic, cr3].
set_address(cr3, value) ==
  IF And(value, Not(xfff)) # value
  THEN [panic |-> SetAddressPanic, cr3 |-> cr3]
  ELSE [panic |-> NoPanic, cr3 |-> Or(And(cr3, xfff), value)]

\* 0x1000
KERNEL_ENTRYPOINT == Bit(12)

PageMapFlags_W == [writeable |-> TRUE, executable |-> FALSE]

PageMapFlags_X == [writeable |-> FALSE, executable |-> TRUE]

PageMapFlags_default == [writeable |-> FALSE, executable |-> FALSE]

\* ram with the bytes of one page replaced.
Store(r, page_address, bytes) ==
  [a \in DOMAIN r \cup {page_address} |-> IF a = page_address THEN bytes ELSE r[a]]

\* The page map after one call of set in a loop over pages; st.ram stays.
PageSet(st, ret) ==
  [mem |-> ret.mem, next_page |-> ret.next_page, panic |-> ret.panic, ram |-> st.ram]

RECURSIVE map_stack_loop_read_only(_, _, _, _, _, _)
\* The loop of map_stack passing the default flags instead of W.
map_stack_loop_read_only(self, st, stack_virtual_address, stack_physical_address, offset, pages) ==
  IF pages = 0 \/ st.panic # NoPanic THEN st
  ELSE map_stack_loop_read_only(
         self,
         PageSet(st, set(self, st.mem, st.next_page,
                         Add(stack_virtual_address, Bits(offset)),
                         Add(stack_physical_address, Bits(offset)), PageMapFlags_default)),
         stack_virtual_address, stack_physical_address, offset + PAGE_SIZE, pages - 1)

RECURSIVE map_stack_loop(_, _, _, _, _, _)
\* The loop of map_stack from the page at offset on; a panic ends it.
map_stack_loop(self, st, stack_virtual_address, stack_physical_address, offset, pages) ==
  IF pages = 0 \/ st.panic # NoPanic THEN st
  ELSE map_stack_loop(
         self,
         PageSet(st, set(self, st.mem, st.next_page,
                         Add(stack_virtual_address, Bits(offset)),
                         Add(stack_physical_address, Bits(offset)), PageMapFlags_W)),
         stack_virtual_address, stack_physical_address, offset + PAGE_SIZE, pages - 1)

stack_num_pages == (Val(KERNEL_ENTRYPOINT) + PAGE_SIZE - 1) \div PAGE_SIZE

\* map_stack: the pages come from the allocator as they are; nothing is
\* written to them.
map_stack(self, m, np, r) ==
  map_stack_loop(self,
                 [mem |-> m, next_page |-> allocate_pages(np, stack_num_pages).next_page,
                  panic |-> NoPanic, ram |-> r],
                 {}, allocate_pages(np, stack_num_pages).address, 0, stack_num_pages)

\* page_buffer after the copy loop of the page at offset.
page_buffer(segment_bytes, offset) ==
  [i \in 0..(PAGE_SIZE - 1) |->
     IF offset + i < Len(segment_bytes) THEN segment_bytes[offset + i + 1] ELSE 0]

\* The copy loop of a page that leaves the bytes past the segment as found.
SegmentPage_no_padding(st, ret, page_physical_addr, segment_bytes, offset) ==
  [mem |-> ret.mem, next_page |-> ret.next_page, panic |-> ret.panic,
   ram |-> Store(st.ram, page_physical_addr,
                 [i \in 0..(PAGE_SIZE - 1) |->
                    IF offset + i < Len(segment_bytes) THEN segment_bytes[offset + i + 1]
                    ELSE 255])]

\* One iteration of the loop of map_kernel_segment: the page is filled, then
\* mapped (ret is what set returned).
SegmentPage(st, ret, page_physical_addr, segment_bytes, offset) ==
  [mem |-> ret.mem, next_page |-> ret.next_page, panic |-> ret.panic,
   ram |-> Store(st.ram, page_physical_addr, page_buffer(segment_bytes, offset))]

RECURSIVE map_kernel_segment_loop(_, _, _, _, _, _, _, _)
map_kernel_segment_loop(self, st, base_virtual_addr, base_physical_addr, segment_bytes, flags, offset, pages) ==
  IF pages = 0 \/ st.panic # NoPanic THEN st
  ELSE map_kernel_segment_loop(
         self,
         SegmentPage(st,
                     set(self, st.mem, st.next_page, Add(base_virtual_addr, Bits(offset)),
                         Add(base_physical_addr, Bits(offset)), flags),
                     Add(base_physical_addr, Bits(offset)), segment_bytes, offset),
         base_virtual_addr, base_physical_addr, segment_bytes, flags,
         offset + PAGE_SIZE, pages - 1)

\* The number of pages of a segment of the given size (a size that the
\* segment accessor has accepted is at most the length of the buffer).
segment_pages(segment_size) == (Val(segment_size) + PAGE_SIZE - 1) \div PAGE_SIZE

\* map_kernel_segment, as [mem, next_page, panic, ram].
map_kernel_segment(self, m, np, r, info, segment_bytes, flags) ==
  map_kernel_segment_loop(
    self,
    [mem |-> m, next_page |-> allocate_pages(np, segment_pages(info.size)).next_page,
     panic |-> NoPanic, ram |-> r],
    info.load_address, allocate_pages(np, segment_pages(info.size)).address,
    segment_bytes, flags, 0, segment_pages(info.size))

\* The flags map_kernel passes for each segment.
segment_flags(name) ==
  CASE name = "code" -> PageMapFlags_X
    [] name = "rodata" -> PageMapFlags_default
    [] name = "rwdata" -> PageMapFlags_W

ParsePanic == "kernel is not a v0 learn-os executable"

OverlapPanic == "switch_to_kernel overlaps with start of kernel"

\* map_switch_to_kernel for a switch_to_kernel that lies at the given address.
map_switch_to_kernel(self, m, np, switch_to_kernel_addr) ==
  IF ~Gt(And(switch_to_kernel_addr, Not(xfff)), Add(KERNEL_ENTRYPOINT, xfff))
  THEN [mem |-> m, next_page |-> np, panic |-> OverlapPanic]
  ELSE set(self, m, np, And(switch_to_kernel_addr, Not(xfff)),
           And(switch_to_kernel_addr, Not(xfff)), PageMapFlags_X)

PagingPanic == "4-level paging isn't enabled"

\* The assertion of main with the test of CR4.LA57 left out.
paging_enabled_without_la57(cr0, cr4, ia32_efer) == pg(cr0) /\ pae(cr4) /\ lme(ia32_efer)

\* The condition main asserts before the switch.
paging_enabled(cr0, cr4, ia32_efer) ==
  pg(cr0) /\ pae(cr4) /\ lme(ia32_efer) /\ ~la57(cr4)

SerialPanic == "no serial controller"

\* get_serial_controller for a device whose ids match or not and whose BAR0
\* holds bar0, as [panic, port].
get_serial_controller(ids_match, bar0) ==
  IF ~ids_match \/ bar0 > 65535 \/ bar0 % 2 # 1
  THEN [panic |-> SerialPanic, port |-> 0]
  ELSE [panic |-> NoPanic, port |-> (bar0 \div 16) * 16]

\* The kernel's entry function with its arguments taken in another order.
kernel_arguments_swapped(c) == <<Bits(c.si), c.rdi>>

\* What the kernel's entry function receives when it is entered with the
\* registers c: extern "sysv64" takes _page_size from rdi and
\* serial_device_port from the low 16 bits of rsi.
kernel_arguments(c) == <<c.rdi, Bits(c.si)>>

-----------------------------------------------------------------------------
(* One boot: main from load_kernel to the jump into the kernel.            *)

Header(code_descriptor, rodata_descriptor, rwdata_descriptor) ==
  MAGIC_BYTES \o <<0, 0>> \o code_descriptor \o rodata_descriptor \o rwdata_descriptor

\* The kernel files on the boot volume: the sample of the format's tests; a
\* code segment of two pages; segments under different tables; an empty
\* code segment; a wrong magic; 70 bytes; version 1; a code range past the
\* file; a misaligned load address; a rodata segment loaded at address 0;
\* no file at all.
KernelFiles ==
  {[found |-> TRUE, bytes |-> b] : b \in
     {Header(Descriptor(82, 4, 4096), Descriptor(86, 0, 8192), Descriptor(86, 2, 12288))
        \o Body(6),
      Header(Descriptor(82, 4100, 4096), Descriptor(4182, 3, 12288),
             Descriptor(4185, 5, 16384)) \o Body(4108),
      Header(Descriptor(82, 1, 20480), Descriptor(83, 1, 2 ^ 30), Descriptor(84, 1, 2 ^ 21))
        \o Body(3),
      Header(Descriptor(82, 0, 4096), Descriptor(82, 2, 8192), Descriptor(84, 2, 12288))
        \o Body(4),
      [MAGIC_BYTES EXCEPT ![1] = 76] \o <<0, 0>> \o [i \in 1..72 |-> 0],
      SubSeq(Header(Descriptor(82, 4, 4096), Descriptor(86, 0, 8192),
                    Descriptor(86, 2, 12288)), 1, 70),
      MAGIC_BYTES \o <<1, 0>> \o [i \in 1..72 |-> 0],
      Header(Descriptor(82, 100, 4096), Descriptor(86, 0, 8192), Descriptor(86, 2, 12288))
        \o Body(6),
      Header(Descriptor(82, 4, 4097), Descriptor(86, 0, 8192), Descriptor(86, 2, 12288))
        \o Body(6),
      Header(Descriptor(82, 2, 4096), Descriptor(84, 1, 0), Descriptor(85, 1, 12288))
        \o Body(4)}}
  \cup {[found |-> FALSE, bytes |-> <<>>]}

\* What an allocated page may hold before anything is written to it.
PageContents == {[i \in 0..(PAGE_SIZE - 1) |-> 0], [i \in 0..(PAGE_SIZE - 1) |-> 170]}

\* Addresses of switch_to_kernel: in the page of the kernel entry, in the
\* page at 0x3000 and far above the kernel.
SwitchAddresses ==
  {Hex(<<1, 10, 11, 12>>), Hex(<<3, 10, 11, 12>>), Hex(<<3, 14, 0, 0, 0, 10, 11, 12>>)}

\* BAR0 of the serial controller: two I/O ports and a memory BAR.
Bar0Samples == {1017, 49153, 1016}

\* The control registers as the firmware leaves them: 4-level paging on; PG,
\* PAE or LME off; LA57 on.  CR3 holds the firmware's root with PWT and PCD
\* set, or without control bits.
CpuSamples ==
  {[cr0 |-> r[1], cr3 |-> r[4], cr4 |-> r[2], ia32_efer |-> r[3], interrupts |-> TRUE,
    rip |-> {}, rbp |-> {}, rsp |-> {}, rdi |-> {}, si |-> 0] : r \in
     {<<Bit(31) \cup Bit(0), Bit(5), Bit(8) \cup Bit(10), Bit(13) \cup Bit(3) \cup Bit(4)>>,
      <<Bit(31) \cup Bit(0), Bit(5), Bit(8) \cup Bit(10), Bit(13)>>,
      <<Bit(0), Bit(5), Bit(8) \cup Bit(10), Bit(13) \cup Bit(3)>>,
      <<Bit(31) \cup Bit(0), {}, Bit(8) \cup Bit(10), Bit(13) \cup Bit(3)>>,
      <<Bit(31) \cup Bit(0), Bit(5), Bit(10), Bit(13) \cup Bit(3)>>,
      <<Bit(31) \cup Bit(0), Bit(5) \cup Bit(12), Bit(8) \cup Bit(10), Bit(13) \cup Bit(3)>>}}

InitBoot ==
  /\ address = {}
  /\ mem = EmptyTable
  /\ next_page = 0
  /\ panic = NoPanic
  /\ last = [v \in VirtualPages |-> NoSet]
  /\ call = [fn |-> "main"]
  /\ pc = "load_kernel"
  /\ trace = <<>>
  /\ status = "none"
  /\ kernel_info = [size |-> 0]
  /\ ram = EmptyTable
  /\ cpu \in CpuSamples
  /\ locals = [stack_physical_address |-> {}, switch_to_kernel_page_addr |-> {},
               serial_controller_port |-> 0, cr3 |-> {}]

\* main moves on to the position next; the position it leaves is recorded.
Step(next) ==
  /\ pc' = next
  /\ trace' = Append(trace, pc)

\* main goes on after a call that returned why, or stops in its panic.
StepUnless(why, next) ==
  /\ panic' = why
  /\ Step(IF why = NoPanic THEN next ELSE pc)

LoadKernel(file) ==
  /\ pc = "load_kernel"
  /\ panic = NoPanic
  /\ IF file.found
     THEN LET kernel_size == Len(file.bytes)
              kernel_pages == (kernel_size + PAGE_SIZE - 1) \div PAGE_SIZE
          IN /\ kernel_info' = [physical_address |-> allocate_pages(next_page, kernel_pages).address,
                                size |-> kernel_size, allocated_pages |-> kernel_pages,
                                buffer |-> file.bytes]
             /\ next_page' = allocate_pages(next_page, kernel_pages).next_page
             /\ Step("PageMap::new")
             /\ UNCHANGED status
     ELSE /\ status' = "ABORTED"
          /\ Step("returned")
          /\ UNCHANGED <<kernel_info, next_page>>
  /\ UNCHANGED <<address, mem, panic, last, call, ram, cpu, locals>>

PageMapNew ==
  /\ pc = "PageMap::new"
  /\ panic = NoPanic
  /\ address' = new(mem, next_page).address
  /\ mem' = new(mem, next_page).mem
  /\ next_page' = new(mem, next_page).next_page
  /\ Step("map_stack")
  /\ UNCHANGED <<panic, last, call, status, kernel_info, ram, cpu, locals>>

\* The page map and the data pages after a call that returned ret.
Mapped(ret, next) ==
  /\ mem' = ret.mem
  /\ next_page' = ret.next_page
  /\ StepUnless(ret.panic, next)

\* contents is what the pages of the stack hold when the allocator hands
\* them out.
MapStack(contents) ==
  /\ pc = "map_stack"
  /\ panic = NoPanic
  /\ Mapped(map_stack(address, mem, next_page, ram), "Exe::parse")
  /\ ram' = [a \in DOMAIN ram
                    \cup {Add(allocate_pages(next_page, stack_num_pages).address,
                              Bits(p * PAGE_SIZE)) : p \in 0..(stack_num_pages - 1)}
               |-> IF a \in DOMAIN ram THEN ram[a] ELSE contents]
  /\ locals' = [locals EXCEPT
                  !.stack_physical_address = allocate_pages(next_page, stack_num_pages).address]
  /\ UNCHANGED <<address, last, call, status, kernel_info, cpu>>

\* map_kernel going on to the segments whatever Exe::parse returned.
ParseKernel_ignoring_error ==
  /\ pc = "Exe::parse"
  /\ panic = NoPanic
  /\ StepUnless(NoPanic, "code")
  /\ UNCHANGED <<address, mem, next_page, last, call, status, kernel_info, ram, cpu, locals>>

\* The first statement of map_kernel: Exe::parse(kernel_buffer).expect(..).
ParseKernel ==
  /\ pc = "Exe::parse"
  /\ panic = NoPanic
  /\ StepUnless(IF parse(kernel_info.buffer).err = "Ok" THEN NoPanic ELSE ParsePanic, "code")
  /\ UNCHANGED <<address, mem, next_page, last, call, status, kernel_info, ram, cpu, locals>>

\* map_kernel without its second call of map_kernel_segment.
AfterSegment_skipping_rodata(name) ==
  CASE name = "code" -> "rwdata"
    [] name = "rodata" -> "rwdata"
    [] name = "rwdata" -> "map_switch_to_kernel"

\* The position of main after the named segment.
AfterSegment(name) ==
  CASE name = "code" -> "rodata"
    [] name = "rodata" -> "rwdata"
    [] name = "rwdata" -> "map_switch_to_kernel"

SegmentMapped(ret, next) ==
  /\ Mapped(ret, next)
  /\ ram' = ret.ram

\* One call of map_kernel_segment by map_kernel; the segment accessor that
\* computes its argument may panic.
MapSegment(name) ==
  /\ pc = name
  /\ panic = NoPanic
  /\ IF segment_data(name, kernel_info.buffer).panic # NoPanic
     THEN /\ StepUnless(SlicePanic, pc)
          /\ UNCHANGED <<mem, next_page, ram>>
     ELSE SegmentMapped(
            map_kernel_segment(address, mem, next_page, ram,
                               segment_info(name, kernel_info.buffer),
                               segment_data(name, kernel_info.buffer).bytes,
                               segment_flags(name)),
            AfterSegment(name))
  /\ UNCHANGED <<address, last, call, status, kernel_info, cpu, locals>>

MapSwitchToKernel(switch_to_kernel_addr) ==
  /\ pc = "map_switch_to_kernel"
  /\ panic = NoPanic
  /\ Mapped(map_switch_to_kernel(address, mem, next_page, switch_to_kernel_addr), "assert")
  /\ locals' = [locals EXCEPT
                  !.switch_to_kernel_page_addr = And(switch_to_kernel_addr, Not(xfff))]
  /\ UNCHANGED <<address, last, call, status, kernel_info, ram, cpu>>

\* The assertion on CR0, CR4 and IA32_EFER.
VerifyPaging ==
  /\ pc = "assert"
  /\ panic = NoPanic
  /\ StepUnless(IF paging_enabled(cpu.cr0, cpu.cr4, cpu.ia32_efer) THEN NoPanic
                ELSE PagingPanic,
                "get_serial_controller")
  /\ UNCHANGED <<address, mem, next_page, last, call, status, kernel_info, ram, cpu, locals>>

GetSerialController(ids_match, bar0) ==
  /\ pc = "get_serial_controller"
  /\ panic = NoPanic
  /\ StepUnless(get_serial_controller(ids_match, bar0).panic, "exit_boot_services")
  /\ locals' = [locals EXCEPT
                  !.serial_controller_port = get_serial_controller(ids_match, bar0).port]
  /\ UNCHANGED <<address, mem, next_page, last, call, status, kernel_info, ram, cpu>>

ExitBootServices ==
  /\ pc = "exit_boot_services"
  /\ panic = NoPanic
  /\ Step("switch_to_kernel")
  /\ UNCHANGED <<address, mem, next_page, panic, last, call, status, kernel_info, ram, cpu,
                 locals>>

\* switch_to_kernel: CR3::read and set_address on the local copy.
SetAddress ==
  /\ pc = "switch_to_kernel"
  /\ panic = NoPanic
  /\ StepUnless(set_address(cpu.cr3, address).panic, "cli")
  /\ locals' = [locals EXCEPT !.cr3 = set_address(cpu.cr3, address).cr3]
  /\ UNCHANGED <<address, mem, next_page, last, call, status, kernel_info, ram, cpu>>

Cli ==
  /\ pc = "cli"
  /\ panic = NoPanic
  /\ cpu' = [cpu EXCEPT !.interrupts = FALSE]
  /\ Step("cr3.write")
  /\ UNCHANGED <<address, mem, next_page, panic, last, call, status, kernel_info, ram, locals>>

WriteCR3 ==
  /\ pc = "cr3.write"
  /\ panic = NoPanic
  /\ cpu' = [cpu EXCEPT !.cr3 = locals.cr3]
  /\ Step("jmp")
  /\ UNCHANGED <<address, mem, next_page, panic, last, call, status, kernel_info, ram, locals>>

\* The last asm block: rbp, rsp, rdi and si are loaded, then the jump.
Jump ==
  /\ pc = "jmp"
  /\ panic = NoPanic
  /\ cpu' = [cpu EXCEPT !.rbp = KERNEL_ENTRYPOINT, !.rsp = KERNEL_ENTRYPOINT,
                        !.rdi = Bits(PAGE_SIZE), !.si = locals.serial_controller_port,
                        !.rip = KERNEL_ENTRYPOINT]
  /\ Step("kernel")
  /\ UNCHANGED <<address, mem, next_page, panic, last, call, status, kernel_info, ram, locals>>

NextBoot ==
  \/ \E file \in KernelFiles : LoadKernel(file)
  \/ PageMapNew
  \/ \E contents \in PageContents : MapStack(contents)
  \/ ParseKernel
  \/ \E name \in SegmentNames : MapSegment(name)
  \/ \E switch_to_kernel_addr \in SwitchAddresses : MapSwitchToKernel(switch_to_kernel_addr)
  \/ VerifyPaging
  \/ \E ids_match \in BOOLEAN, bar0 \in Bar0Samples : GetSerialController(ids_match, bar0)
  \/ ExitBootServices
  \/ SetAddress
  \/ Cli
  \/ WriteCR3
  \/ Jump

SpecBoot == InitBoot /\ [][NextBoot]_vars

-----------------------------------------------------------------------------
(* Properties of single calls (SpecCalls).                                 *)

RecursiveSlot == [pml4 |-> 511, pdpt |-> 511, pd |-> 511, pt |-> 511]

PageOffset(a) == And(a, xfff)

Is48Bit(a) == a \subseteq 0..47

C7_ActivePdptIsRecursiveSlot ==
  (call.fn \in {"pdpt", "pdpt_mut"} /\ call.mode = "Active" /\ call.pml4_index < 512) =>
    /\ call.ret.panic = NoPanic
    /\ address_to_page_map_indices(call.ret.address)
         = [pml4 |-> 511, pdpt |-> 511, pd |-> 511, pt |-> call.pml4_index]
    /\ PageOffset(call.ret.address) = {}
    /\ pdpt(address, mem, "Active", call.pml4_index)
         = pdpt_mut(address, mem, "Active", call.pml4_index)

\* C9 as stated: recomposing the decomposition of any valid 48-bit virtual
\* address gives the address back, and decomposing a recomposed index tuple
\* gives the tuple back.
C9_RoundTripAllAddresses ==
  /\ (call.fn = "address_to_page_map_indices" /\ Is48Bit(call.arg)) =>
       page_map_indices_to_address(call.ret) = call.arg
  /\ call.fn = "page_map_indices_to_address" =>
       address_to_page_map_indices(call.ret) = call.arg

\* C9 amended: recomposing the decomposition of a valid 48-bit virtual
\* address gives the address with its 12-bit page offset cleared, so the
\* round trip is exact for the page-aligned addresses; decomposing a
\* recomposed index tuple gives the tuple back.
C9_RoundTripPageAligned ==
  /\ (call.fn = "address_to_page_map_indices" /\ Is48Bit(call.arg)) =>
       /\ page_map_indices_to_address(call.ret) = And(call.arg, Not(xfff))
       /\ PageOffset(call.arg) = {} => page_map_indices_to_address(call.ret) = call.arg
  /\ call.fn = "page_map_indices_to_address" =>
       /\ address_to_page_map_indices(call.ret) = call.arg
       /\ Is48Bit(call.ret) /\ PageOffset(call.ret) = {}

\* A page-aligned address with distinct nonzero indices has been decomposed
\* and an index tuple with distinct nonzero indices recomposed.
C9_Witness ==
  \/ /\ call.fn = "address_to_page_map_indices"
     /\ call.arg = VirtualPage(511, 256, 31, 1)
     /\ call.ret = [pml4 |-> 511, pdpt |-> 256, pd |-> 31, pt |-> 1]
  \/ /\ call.fn = "page_map_indices_to_address"
     /\ call.arg = [pml4 |-> 1, pdpt |-> 31, pd |-> 256, pt |-> 511]
     /\ call.ret # {}

\* C10: entry construction succeeds exactly when the address is 4 KiB
\* aligned and below 2^52.
C10_NewAcceptsExactly52Bits ==
  call.fn = "new" =>
    (call.ret.panic = NoPanic
       <=> (PageOffset(call.address) = {} /\ call.address \subseteq 0..51))

\* C11: every constructed entry has the present bit set and differs from
\* the all-zero entry, and the encoding round-trips: the decoded address is
\* the address argument, writable() is the writable argument, bit 63 is the
\* execute-disable argument and bits 2, 3 and 4 are user, pwt and pcd.
C11_EncodingRoundTrips ==
  (call.fn = "new" /\ call.ret.panic = NoPanic) =>
    LET e == call.ret.value
    IN /\ present(e)
       /\ e # PTE_unset
       /\ entry_address(e) = call.address
       /\ writable(e) = call.writable
       /\ execute_disable(e) = call.execute_disable
       /\ (2 \in e) = call.user
       /\ (3 \in e) = call.pwt
       /\ (4 \in e) = call.pcd

\* The first 8 bytes of b spell "learn-os".
HasMagic(b) ==
  /\ b[1] = 108 /\ b[2] = 101 /\ b[3] = 97 /\ b[4] = 114
  /\ b[5] = 110 /\ b[6] = 45 /\ b[7] = 111 /\ b[8] = 115

\* C12: parse returns Length{82, actual} for every buffer shorter than 82
\* bytes; MagicBytes for a buffer of at least 82 bytes whose first 8 bytes
\* are not "learn-os", whatever the version; Version{0, v} for a buffer with
\* the magic and little-endian version v # 0; and succeeds exactly when
\* none of the three holds.
C12_ParsePrecedence ==
  call.fn = "parse" =>
    LET b == call.buffer
        long == Len(b) >= 82
        v == b[9] + 256 * b[10]
    IN /\ ~long =>
            call.ret = [err |-> "Length", minimum_length |-> 82, actual_length |-> Len(b)]
       /\ (long /\ ~HasMagic(b)) => call.ret.err = "MagicBytes"
       /\ (long /\ HasMagic(b) /\ v # 0) =>
            call.ret = [err |-> "Version", expected |-> 0, actual |-> v]
       /\ call.ret.err = "Ok" <=> (long /\ HasMagic(b) /\ v = 0)

\* parse has answered MagicBytes for a buffer whose version is wrong too.
C12_Witness ==
  /\ call.fn = "parse"
  /\ Len(call.buffer) >= 82
  /\ ~HasMagic(call.buffer)
  /\ call.buffer[9] # 0
  /\ call.ret.err = "MagicBytes"

\* The little-endian u64 held by the 8 bytes of b from byte offset k on.
LeField(b, k) == {n \in U64Bits : (b[k + (n \div 8) + 1] \div Pow2(n % 8)) % 2 = 1}

DescriptorOffset(name) ==
  CASE name = "code" -> 10 [] name = "rodata" -> 34 [] name = "rwdata" -> 58

\* C13: on a parsed buffer the descriptors of code, rodata and rwdata are the
\* little-endian u64 fields start, size, load address at byte offsets 10, 34
\* and 58, and each segment accessor returns exactly the bytes
\* buffer[start .. start+size) of its own descriptor (none when size is 0).
C13_DescriptorsAndSegments ==
  call.fn \in {"info", "segment"} =>
    LET b == call.buffer
        k == DescriptorOffset(call.segment)
        start == LeField(b, k)
        size_ == LeField(b, k + 8)
    IN /\ call.fn = "info" =>
            call.ret = [start |-> start, size |-> size_, load_address |-> LeField(b, k + 16)]
       /\ (call.fn = "segment" /\ Small(start) /\ Small(size_)
             /\ Val(start) + Val(size_) <= Len(b)) =>
            /\ call.ret.panic = NoPanic
            /\ Len(call.ret.bytes) = Val(size_)
            /\ \A i \in 1..Val(size_) : call.ret.bytes[i] = b[Val(start) + i]

\* The rwdata accessor has returned the bytes of a range that is not the
\* range of code or rodata.
C13_Witness ==
  /\ call.fn = "segment"
  /\ call.segment = "rwdata"
  /\ call.ret.panic = NoPanic
  /\ Len(call.ret.bytes) = 3
  /\ code_info(call.buffer).start # rwdata_info(call.buffer).start

\* The range [start, start + size) of u64 values does not lie in a buffer
\* of len bytes: the sum wraps around 2^64 or exceeds len.
OutOfBuffer(start, size_, len) ==
  \/ Gt(start, Add(start, size_))
  \/ Gt(Add(start, size_), Bits(len))

\* C28: parse accepts a buffer whatever its descriptors declare, and the
\* accessor of a segment whose declared range [start, start + size) ends
\* past the buffer, or whose start + size overflows, yields no slice: it
\* fails with the out-of-range panic of the slice index.  It yields a slice
\* exactly when the range lies within the buffer.
C28_OutOfRangeSegmentFails ==
  call.fn = "segment" =>
    LET start == LeField(call.buffer, DescriptorOffset(call.segment))
        size_ == LeField(call.buffer, DescriptorOffset(call.segment) + 8)
    IN /\ parse(call.buffer).err = "Ok"
       /\ OutOfBuffer(start, size_, Len(call.buffer)) =>
            (call.ret.panic = SlicePanic /\ call.ret.bytes = <<>>)
       /\ ~OutOfBuffer(start, size_, Len(call.buffer)) => call.ret.panic = NoPanic

\* The code accessor has failed on a header that parse accepted and whose
\* code range starts at 2^64 - 1, so that start + size overflows.
C28_Witness ==
  /\ call.fn = "segment"
  /\ call.segment = "code"
  /\ LeField(call.buffer, DescriptorOffset("code")) = U64Bits
  /\ call.ret.panic = SlicePanic

-----------------------------------------------------------------------------
(* Properties of the page map under set and unset (Spec).                  *)

\* The entries on the path of virtual page v: the PML4, PDPT and PD
\* entries (all-zero below a missing table) and the leaf.
Path(self, m, v) ==
  LET ix == address_to_page_map_indices(v)
      pml4e == Read(m, self, ix.pml4)
      pdpte == IF present(pml4e) THEN Read(m, entry_address(pml4e), ix.pdpt) ELSE {}
      pde == IF present(pdpte) THEN Read(m, entry_address(pdpte), ix.pd) ELSE {}
      pte == IF present(pde) THEN Read(m, entry_address(pde), ix.pt) ELSE {}
  IN [pml4e |-> pml4e, pdpte |-> pdpte, pde |-> pde, pte |-> pte]

Ancestors(self, m, v) ==
  LET path == Path(self, m, v) IN {path.pml4e, path.pdpte, path.pde}

\* The slots <<table, index>> of the present PML4, PDPT and PD entries.
IntermediateSlots(self, m) ==
  LET l1 == {<<self, i>> : i \in PresentIndices(m, self)}
      l2 == UNION {{<<Child(m, s[1], s[2]), j>> : j \in PresentIndices(m, Child(m, s[1], s[2]))}
                   : s \in l1}
      l3 == UNION {{<<Child(m, s[1], s[2]), k>> : k \in PresentIndices(m, Child(m, s[1], s[2]))}
                   : s \in l2}
  IN l1 \cup l2 \cup l3

MappedPages == {v \in VirtualPages : last[v].kind = "set"}

\* C1: size() is 4096 times the number of distinct virtual pages whose most
\* recent operation was a set.
C1_SizeCountsMappedPages ==
  panic = NoPanic => size(address, mem) = PAGE_SIZE * Cardinality(MappedPages)

\* One page is mapped after another page has been unset.
C1_Witness ==
  /\ panic = NoPanic
  /\ size(address, mem) = PAGE_SIZE
  /\ \E v \in VirtualPages : last[v].kind = "unset"

\* C2: the ancestors of a page that was set permit what the set requested,
\* and no step ever clears an ancestor's writable bit, sets its
\* execute-disable bit, or changes its presence or target.
C2_AncestorsOnlyWiden ==
  [][/\ panic' = NoPanic =>
          \A v \in VirtualPages :
            last'[v].kind = "set" =>
              \A e \in Ancestors(address', mem', v) :
                /\ present(e)
                /\ last'[v].flags.writeable => writable(e)
                /\ last'[v].flags.executable => ~execute_disable(e)
     /\ \A s \in IntermediateSlots(address, mem) :
          LET e == Read(mem, s[1], s[2])
              f == Read(mem', s[1], s[2])
          IN /\ present(f)
             /\ entry_address(f) = entry_address(e)
             /\ writable(e) => writable(f)
             /\ ~execute_disable(e) => ~execute_disable(f)
    ]_vars

\* A page last set read-only and non-executable lies under ancestors that
\* another page made writable and executable.
C2_Witness ==
  /\ panic = NoPanic
  /\ \E v \in VirtualPages :
       /\ last[v].kind = "set"
       /\ ~last[v].flags.writeable /\ ~last[v].flags.executable
       /\ \A e \in Ancestors(address, mem, v) : writable(e) /\ ~execute_disable(e)

\* C3: the leaf of every mapped page holds exactly the physical address and
\* the writable and execute-disable bits of the most recent set of that page.
C3_LeafIsLastSet ==
  panic = NoPanic =>
    \A v \in MappedPages :
      LET pte == Path(address, mem, v).pte
      IN /\ present(pte)
         /\ entry_address(pte) = last[v].physical
         /\ writable(pte) = last[v].flags.writeable
         /\ execute_disable(pte) = ~last[v].flags.executable

\* C4: unset is idempotent: a second unset of the same page changes nothing.
C4_UnsetIdempotent ==
  [][\A v \in VirtualPages :
       Unset(v) => unset(address', mem', v) = [mem |-> mem', panic |-> NoPanic]]_vars

\* A mapped page has been unset while another page of its table stays mapped.
C4_Witness ==
  /\ panic = NoPanic
  /\ \E v \in VirtualPages :
       /\ last[v].kind = "unset"
       /\ present(Path(address, mem, v).pde)
       /\ Path(address, mem, v).pte = {}
  /\ MappedPages # {}

\* C5: set with a misaligned virtual or physical address, and unset with a
\* misaligned virtual address, fails its alignment assertion with the tables
\* and the allocator untouched.
C5_MisalignedRejectedFirst ==
  [][/\ \A v \in VirtualPages \cup Misaligned,
           p \in PhysicalPages \cup WidePhysicalPages \cup Misaligned, flags \in AllFlags :
          ((PageOffset(v) # {} \/ PageOffset(p) # {}) /\ Set(v, p, flags)) =>
            /\ panic' = IF PageOffset(v) # {} THEN VirtualAlignPanic ELSE PhysicalAlignPanic
            /\ mem' = mem
            /\ next_page' = next_page
     /\ \A v \in Misaligned :
          Unset(v) => panic' = VirtualAlignPanic /\ mem' = mem /\ next_page' = next_page
    ]_vars

\* A call with a misaligned physical address has been rejected on a page map
\* that holds mappings.
C5_Witness ==
  /\ panic = PhysicalAlignPanic
  /\ MappedPages # {}

\* C8: the last slot of the top-level table is present and points to the
\* top-level table itself.
C8_LastSlotIsSelfMap ==
  panic = NoPanic =>
    /\ present(Read(mem, address, 511))
    /\ entry_address(Read(mem, address, 511)) = address

\* The last visit before position n of the trace t made by visitor fn.
LastBefore(t, n, fn) ==
  LET earlier == {k \in 1..(n - 1) : t[k].fn = fn}
  IN IF earlier = {} THEN [fn |-> "none"]
     ELSE t[CHOOSE k \in earlier : \A j \in earlier : j <= k]

\* A page of the physical address space: 4 KiB aligned and below 2^52.
IsPhysicalPage(p) == p \subseteq 12..51

\* C14: when the mapped pages are mapped to physical pages, debug calls the
\* leaf visitor once per mapped page and for nothing else, with the virtual
\* address of the page and a leaf entry that carries the physical address
\* and the permission bits the page was mapped with; every present
\* intermediate entry is visited exactly once, before the entries beneath it.
C14_DebugVisitsMappedPages ==
  (panic = NoPanic /\ \A v \in MappedPages : IsPhysicalPage(last[v].physical)) =>
    LET t == debug(address, mem)
        leaves == {n \in 1..Len(t) : t[n].fn = "debug_pte"}
    IN /\ Cardinality(leaves) = Cardinality(MappedPages)
       /\ \A v \in MappedPages :
            \E n \in leaves :
              /\ t[n].address = v
              /\ t[n].index = address_to_page_map_indices(v).pt
              /\ entry_address(t[n].entry) = last[v].physical
              /\ writable(t[n].entry) = last[v].flags.writeable
              /\ execute_disable(t[n].entry) = ~last[v].flags.executable
       /\ \A n \in leaves :
            LET ix == address_to_page_map_indices(t[n].address)
                path == Path(address, mem, t[n].address)
            IN /\ LastBefore(t, n, "debug_pml4e")
                    = [fn |-> "debug_pml4e", index |-> ix.pml4, entry |-> path.pml4e]
               /\ LastBefore(t, n, "debug_pdpte")
                    = [fn |-> "debug_pdpte", index |-> ix.pdpt, entry |-> path.pdpte]
               /\ LastBefore(t, n, "debug_pde")
                    = [fn |-> "debug_pde", index |-> ix.pd, entry |-> path.pde]
       /\ Len(t) - Cardinality(leaves) = Cardinality(IntermediateSlots(address, mem))

\* Two pages of one page table are mapped with different permissions: debug
\* makes three intermediate visits and two leaf visits.
C14_Witness ==
  /\ panic = NoPanic
  /\ Cardinality(MappedPages) = 2
  /\ \A v \in MappedPages : IsPhysicalPage(last[v].physical)
  /\ \E v, w \in MappedPages : last[v].flags # last[w].flags
  /\ Len(debug(address, mem)) = 5

-----------------------------------------------------------------------------
(* Properties of one boot (SpecBoot).                                      *)

\* The positions of main at which a phase of the boot is carried out: load,
\* construct the address space, map the stack, parse, map the segments,
\* identity-map the transition page, verify, transition.
IsPhase(position) ==
  position \in {"load_kernel", "PageMap::new", "map_stack", "Exe::parse", "code", "rodata",
                "rwdata", "map_switch_to_kernel", "assert", "switch_to_kernel"}

Phases == SelectSeq(trace, IsPhase)

\* C15 as stated: a boot that reaches the kernel has carried out each phase
\* once, in the order load, parse, construct the address space, map the
\* stack, map code, rodata, rwdata, identity-map the transition page,
\* verify, transition.
C15_ParseBeforeAddressSpace ==
  pc = "kernel" =>
    Phases = <<"load_kernel", "Exe::parse", "PageMap::new", "map_stack", "code", "rodata",
               "rwdata", "map_switch_to_kernel", "assert", "switch_to_kernel">>

\* C15 amended: a boot that reaches the kernel has carried out each phase
\* once, in the order load, construct the address space, map the stack,
\* parse, map code, rodata, rwdata, identity-map the transition page,
\* verify, transition: the image is parsed after the stack is mapped and
\* before the first segment is mapped.
C15_ParseAfterStack ==
  pc = "kernel" =>
    Phases = <<"load_kernel", "PageMap::new", "map_stack", "Exe::parse", "code", "rodata",
               "rwdata", "map_switch_to_kernel", "assert", "switch_to_kernel">>

\* A boot has reached the kernel.
C15_Witness ==
  /\ pc = "kernel"
  /\ Len(trace) >= 10

InTransition == pc \in {"switch_to_kernel", "cli", "cr3.write", "jmp"}

\* C16: in switch_to_kernel the interrupts are disabled first; then CR3 is
\* written once, with the address of the new root table and the low 12 bits
\* of its previous value; then control jumps to the kernel entry.  No step
\* re-enables interrupts and switch_to_kernel never returns to main.
C16_TransitionOrder ==
  [][/\ cpu'.cr3 # cpu.cr3 =>
          /\ pc = "cr3.write"
          /\ ~cpu.interrupts
          /\ And(cpu'.cr3, Not(xfff)) = address
          /\ And(cpu'.cr3, xfff) = And(cpu.cr3, xfff)
     /\ (pc # "kernel" /\ pc' = "kernel") =>
          /\ ~cpu.interrupts /\ ~cpu'.interrupts
          /\ And(cpu.cr3, Not(xfff)) = address
          /\ cpu'.cr3 = cpu.cr3
          /\ cpu'.rip = Bit(12)
     /\ ~cpu.interrupts => ~cpu'.interrupts
     /\ InTransition => (pc' = "kernel" \/ InTransition') /\ status' = "none"
    ]_vars

\* The kernel runs on the new root table while CR3 keeps the control bits
\* the firmware had set.
C16_Witness ==
  /\ pc = "kernel"
  /\ ~cpu.interrupts
  /\ And(cpu.cr3, Not(xfff)) = address
  /\ And(cpu.cr3, xfff) = Bit(3) \cup Bit(4)

\* PG, PAE and LME are set and LA57 is clear.
Prerequisites == 31 \in cpu.cr0 /\ 5 \in cpu.cr4 /\ 8 \in cpu.ia32_efer /\ 12 \notin cpu.cr4

\* C17: interrupts are disabled, CR3 is written and the kernel is entered
\* only when the check has seen PG, PAE and LME set and LA57 clear; when one
\* of the four is not as required the check ends the boot in a panic and
\* none of the three ever happens.
C17_SwitchOnlyAfterCheck ==
  [][/\ (cpu'.cr3 # cpu.cr3 \/ cpu'.interrupts # cpu.interrupts \/ pc' = "kernel") =>
          /\ Prerequisites
          /\ "assert" \in {trace[n] : n \in 1..Len(trace)}
     /\ (pc = "assert" /\ ~Prerequisites) => (panic' = PagingPanic /\ pc' = pc)
    ]_vars

\* The check has ended a boot whose page map is complete because LA57 is
\* set; interrupts and CR3 are as the firmware left them.
C17_Witness ==
  /\ panic = PagingPanic
  /\ 12 \in cpu.cr4
  /\ cpu.interrupts
  /\ And(cpu.cr3, Not(xfff)) # address

\* The descriptor of the named segment in the loaded file, read bit by bit.
SegmentStart(name) == Val(LeField(kernel_info.buffer, DescriptorOffset(name)))

SegmentSize(name) == Val(LeField(kernel_info.buffer, DescriptorOffset(name) + 8))

SegmentLoad(name) == LeField(kernel_info.buffer, DescriptorOffset(name) + 16)

\* ceil(size / 4096)
SegmentPageCount(name) == (SegmentSize(name) + 4095) \div 4096

\* The virtual pages of the named segment.
SegmentPagesOf(name) ==
  {Add(SegmentLoad(name), Bits(p * 4096)) : p \in 0..(SegmentPageCount(name) - 1)}

\* What the 4-level walk of v permits: the AND of the writable bits and the
\* OR of the execute-disable bits of its four entries.
IsMapped(v) == present(Path(address, mem, v).pte)

EffectiveWritable(v) ==
  LET path == Path(address, mem, v)
  IN writable(path.pml4e) /\ writable(path.pdpte) /\ writable(path.pde) /\ writable(path.pte)

EffectiveExecutable(v) ==
  LET path == Path(address, mem, v)
  IN ~(\/ execute_disable(path.pml4e) \/ execute_disable(path.pdpte)
       \/ execute_disable(path.pde) \/ execute_disable(path.pte))

\* C18: at handoff every page of the code segment is executable and not
\* writable, every page of rodata neither, and every page of rwdata writable
\* and not executable, by the AND of the writable bits and the OR of the
\* execute-disable bits along its walk.
C18_SegmentPermissionsAtHandoff ==
  pc \in {"jmp", "kernel"} =>
    /\ \A v \in SegmentPagesOf("code") :
         IsMapped(v) /\ EffectiveExecutable(v) /\ ~EffectiveWritable(v)
    /\ \A v \in SegmentPagesOf("rodata") :
         IsMapped(v) /\ ~EffectiveExecutable(v) /\ ~EffectiveWritable(v)
    /\ \A v \in SegmentPagesOf("rwdata") :
         IsMapped(v) /\ ~EffectiveExecutable(v) /\ EffectiveWritable(v)

LeafIndices(v) ==
  LET ix == address_to_page_map_indices(v) IN <<ix.pml4, ix.pdpt, ix.pd, ix.pt>>

\* C19: a call of map_kernel_segment for a segment of size s loaded at the
\* page-aligned address L maps the ceil(s / 4096) pages L + p * 4096 and
\* nothing else; byte i of the physical page behind page p is byte
\* p * 4096 + i of the segment if that index is below s, and 0 otherwise; a
\* segment of size 0 adds no mapping.
C19_SegmentPagesAndBytes ==
  [][(pc \in SegmentNames /\ pc' # pc /\ panic' = NoPanic) =>
       /\ PresentLeaves(address, mem')
            = PresentLeaves(address, mem) \cup {LeafIndices(v) : v \in SegmentPagesOf(pc)}
       /\ Cardinality(SegmentPagesOf(pc)) = SegmentPageCount(pc)
       /\ \A p \in 0..(SegmentPageCount(pc) - 1) :
            LET pte == Path(address, mem', Add(SegmentLoad(pc), Bits(p * 4096))).pte
            IN /\ present(pte)
               /\ entry_address(pte) \in DOMAIN ram'
               /\ ram'[entry_address(pte)]
                    = [i \in 0..4095 |->
                         IF p * 4096 + i < SegmentSize(pc)
                         THEN kernel_info.buffer[SegmentStart(pc) + p * 4096 + i + 1]
                         ELSE 0]
    ]_vars

\* A code segment of more than one page has been mapped, then a segment
\* whose last page is padded.
C19_Witness ==
  /\ pc = "rwdata"
  /\ panic = NoPanic
  /\ SegmentPageCount("code") = 2
  /\ SegmentSize("rodata") = 3

\* The pages of the stack region [0, kernel entry).
StackPages == {v \in {Bits(p * 4096) : p \in 0..4} : Gt(Bit(12), v)}

\* The positions main has passed.
Passed == {trace[n] : n \in 1..Len(trace)}

\* The present leaves other than the leaf of v that point to physical.
OtherLeavesTo(v, physical) ==
  {leaf \in PresentLeaves(address, mem) \ {LeafIndices(v)} :
     entry_address(
       Path(address, mem, VirtualPage(leaf[1], leaf[2], leaf[3], leaf[4])).pte) = physical}

\* v is mapped writable and not executable to its own page of the stack's
\* allocation, which no table and no other mapping uses.
IsStackPage(v) ==
  LET physical == entry_address(Path(address, mem, v).pte)
  IN /\ IsMapped(v)
     /\ EffectiveWritable(v) /\ ~EffectiveExecutable(v)
     /\ physical = Add(locals.stack_physical_address, v)
     /\ physical \notin DOMAIN mem
     /\ OtherLeavesTo(v, physical) = {}
     /\ ~Gt(Add(kernel_info.physical_address, Bits(kernel_info.allocated_pages * 4096)),
             physical)

SegmentPagesSoFar == UNION {SegmentPagesOf(name) : name \in SegmentNames \cap Passed}

WritableIn(m, v) ==
  LET path == Path(address, m, v)
  IN writable(path.pml4e) /\ writable(path.pdpte) /\ writable(path.pde) /\ writable(path.pte)

ExecutableIn(m, v) ==
  LET path == Path(address, m, v)
  IN ~(\/ execute_disable(path.pml4e) \/ execute_disable(path.pdpte)
       \/ execute_disable(path.pde) \/ execute_disable(path.pte))

\* C21: whenever the assertion of map_switch_to_kernel passes, the identity
\* mapping of the transition page leaves the leaf of every page already
\* mapped for a segment or the stack as it was (target and permissions), and
\* the transition page is mapped to its own address, executable.
C21_TransitionPageCollidesWithNothing ==
  [][(pc = "map_switch_to_kernel" /\ pc' = "assert") =>
       /\ \A v \in SegmentPagesSoFar \cup StackPages :
            IsMapped(v) =>
              /\ Path(address, mem', v).pte = Path(address, mem, v).pte
              /\ WritableIn(mem', v) = WritableIn(mem, v)
              /\ ExecutableIn(mem', v) = ExecutableIn(mem, v)
       /\ present(Path(address, mem', locals'.switch_to_kernel_page_addr).pte)
       /\ entry_address(Path(address, mem', locals'.switch_to_kernel_page_addr).pte)
            = locals'.switch_to_kernel_page_addr
       /\ ExecutableIn(mem', locals'.switch_to_kernel_page_addr)
    ]_vars

\* The page the loader fills for page 0 of the code segment.
FirstCodePage ==
  [i \in 0..(PAGE_SIZE - 1) |->
     IF i < SegmentSize("code") THEN kernel_info.buffer[SegmentStart("code") + i + 1] ELSE 0]

\* C22: when CR3 has been written with the root of the new page map, the
\* kernel entry address is mapped there, executable, to a physical page that
\* holds the first bytes of the code segment of the image.
C22_EntryMappedToCodeAtSwitch ==
  pc = "jmp" =>
    /\ And(cpu.cr3, Not(xfff)) = address
    /\ SegmentSize("code") > 0
    /\ IsMapped(KERNEL_ENTRYPOINT)
    /\ EffectiveExecutable(KERNEL_ENTRYPOINT)
    /\ entry_address(Path(address, mem, KERNEL_ENTRYPOINT).pte) \in DOMAIN ram
    /\ ram[entry_address(Path(address, mem, KERNEL_ENTRYPOINT).pte)] = FirstCodePage

\* C23 as stated: the kernel entry function receives the page size, the
\* page address of the transition routine and the console I/O port, in this
\* order.
C23_ThreeRegisterArguments ==
  pc = "kernel" =>
    kernel_arguments(cpu)
      = <<Bits(PAGE_SIZE), locals.switch_to_kernel_page_addr,
          Bits(locals.serial_controller_port)>>

\* C23 amended: the jump writes no memory and changes no table; it loads
\* rdi with the page size and si with the console I/O port, and the kernel
\* entry function receives exactly these two values, in this order; there
\* is no argument for the page address of the transition routine.
C23_TwoRegisterArguments ==
  [][(pc = "jmp" /\ pc' = "kernel") =>
       /\ ram' = ram /\ mem' = mem
       /\ cpu'.rdi = Bits(PAGE_SIZE)
       /\ cpu'.si = locals.serial_controller_port
       /\ kernel_arguments(cpu') = <<Bits(PAGE_SIZE), Bits(locals.serial_controller_port)>>
    ]_vars

\* The kernel has been entered with the port 0x3f0 of the serial controller.
C23_Witness ==
  /\ pc = "kernel"
  /\ cpu.si = 1008
  /\ kernel_arguments(cpu) = <<Bit(12), Bits(1008)>>

\* The kernel file has been read and is not a v0 executable.
LoadedBadImage ==
  /\ "load_kernel" \in Passed
  /\ pc # "returned"
  /\ parse(kernel_info.buffer).err \in {"Length", "MagicBytes", "Version"}

\* C24 as stated: when the image fails format validation, main does not
\* panic: it returns a status from its entry point, and the transition is
\* never reached.
C24_FormatErrorReturnsStatus ==
  (LoadedBadImage /\ "Exe::parse" \in Passed) =>
    /\ panic = NoPanic
    /\ status # "none"
    /\ ~InTransition /\ pc # "kernel"

\* C24 amended: when the image fails format validation, main returns no
\* status: map_kernel panics at Exe::parse, after the stack has been mapped
\* and before any segment is mapped, and the transition is never reached.
\* main returns a status (ABORTED) only when the kernel file cannot be opened.
C24_FormatErrorPanics ==
  /\ LoadedBadImage =>
       /\ status = "none"
       /\ pc \in {"PageMap::new", "map_stack", "Exe::parse"}
       /\ panic = IF "Exe::parse" \in Passed THEN ParsePanic ELSE NoPanic
       /\ "map_stack" \in Passed =>
            PresentLeaves(address, mem) = {LeafIndices(v) : v \in StackPages}
       /\ cpu \in CpuSamples
  /\ pc = "returned" => (status = "ABORTED" /\ panic = NoPanic /\ trace = <<"load_kernel">>)
  /\ status # "none" => pc = "returned"

\* main has stopped in the panic of map_kernel on an image of version 1.
C24_Witness ==
  /\ pc = "Exe::parse"
  /\ panic = ParsePanic
  /\ parse(kernel_info.buffer).err = "Version"

-----------------------------------------------------------------------------
(* Properties of a call of set on a page map with one page (SpecCalls).    *)

IntermediateLevels == {"pml4e", "pdpte", "pde"}

\* The index, in the table a present entry of the level points to, of the
\* next entry on the path of v.
IndexBelow(level, v) ==
  CASE level = "pml4e" -> address_to_page_map_indices(v).pdpt
    [] level = "pdpte" -> address_to_page_map_indices(v).pd
    [] level = "pde" -> address_to_page_map_indices(v).pt

\* The levels whose table is missing on the path of v in the tables m.
MissingLevels(m, v) == {level \in IntermediateLevels : ~present(Path(address, m, v)[level])}

IsAligned(a) == And(a, xfff) = {}

\* C25: a call of set that passes its alignment assertions takes one page
\* from the allocator for each intermediate table missing on the path of the
\* virtual address, none when all three exist; each new table holds nothing
\* but the next entry of the path (every other entry is zero), and its
\* linking entry is present with exactly the requested permissions: created
\* read-only and execute-disabled, then widened.  A call that fails an
\* alignment assertion takes no page.
C25_SetAllocatesMissingTables ==
  call.fn = "set" =>
    LET v == call.virtual_page_address
        missing == MissingLevels(call.before.mem, v)
        after == call.ret.mem
    IN IF IsAligned(v) /\ IsAligned(call.physical_page_address)
       THEN /\ call.ret.next_page = call.before.next_page + Cardinality(missing)
            /\ Cardinality(missing) \in 0..3
            /\ DOMAIN after \ DOMAIN call.before.mem
                 = {allocate_pages(call.before.next_page + n, 1).address :
                      n \in 0..(Cardinality(missing) - 1)}
            /\ {entry_address(Path(address, after, v)[level]) : level \in missing}
                 = DOMAIN after \ DOMAIN call.before.mem
            /\ \A level \in missing :
                 LET e == Path(address, after, v)[level]
                 IN /\ e = EntryValue(~call.flags.executable, entry_address(e), FALSE, FALSE,
                                      FALSE, call.flags.writeable)
                    /\ present(e)
                    /\ DOMAIN after[entry_address(e)] \subseteq {IndexBelow(level, v)}
       ELSE /\ call.ret.next_page = call.before.next_page
            /\ call.ret.mem = call.before.mem

\* set has created exactly one table, the page table, for a page that
\* shares the page directory of the page mapped before.
C25_Witness ==
  /\ call.fn = "set"
  /\ call.ret.panic = NoPanic
  /\ MissingLevels(call.before.mem, call.virtual_page_address) = {"pde"}
  /\ call.flags = [writeable |-> FALSE, executable |-> FALSE]

\* C26: unset(v) changes nothing when an intermediate table on the path
\* of v is absent; otherwise it changes only the leaf entry of v, which
\* becomes all-zero, and v is not mapped afterwards.  Every intermediate
\* entry and every other leaf is unchanged, and no table is released or
\* unlinked, even when its last leaf is cleared.
C26_UnsetChangesOnlyTheLeaf ==
  (call.fn = "unset" /\ IsAligned(call.virtual_page_address)) =>
    LET v == call.virtual_page_address
        before == call.before.mem
        after == call.ret.mem
        leaf_table == entry_address(Path(address, before, v).pde)
        leaf_index == address_to_page_map_indices(v).pt
    IN /\ call.ret.panic = NoPanic
       /\ DOMAIN after = DOMAIN before
       /\ IntermediateSlots(address, after) = IntermediateSlots(address, before)
       /\ \A slot \in IntermediateSlots(address, before) :
            Read(after, slot[1], slot[2]) = Read(before, slot[1], slot[2])
       /\ IF MissingLevels(before, v) # {}
          THEN after = before
          ELSE /\ Read(after, leaf_table, leaf_index) = {}
               /\ ~present(Path(address, after, v).pte)
               /\ \A t \in DOMAIN before :
                    \A i \in (DOMAIN before[t] \cup DOMAIN after[t]) \ 
                             (IF t = leaf_table THEN {leaf_index} ELSE {}) :
                      Read(after, t, i) = Read(before, t, i)
               /\ PresentLeaves(address, after)
                    = PresentLeaves(address, before) \ {LeafIndices(v)}

\* unset has cleared the last leaf of a page table, which stays linked,
\* while another page stays mapped.
C26_Witness ==
  /\ call.fn = "unset"
  /\ present(Path(address, call.before.mem, call.virtual_page_address).pte)
  /\ present(Path(address, call.ret.mem, call.virtual_page_address).pde)
  /\ call.ret.mem[entry_address(Path(address, call.ret.mem, call.virtual_page_address).pde)]
       = EmptyTable
  /\ Cardinality(PresentLeaves(address, call.ret.mem)) = 1

\* C27: for top-level index k and second-level index j in 0..511, the
\* Active-mode address of the page directory reached via (k, j) is
\* page-aligned and decomposes to the indices {511, 511, k, j}, and distinct
\* pairs give distinct addresses.
C27_ActivePdIsRecursiveSlot ==
  (call.fn = "pd_mut" /\ call.mode = "Active" /\ call.pml4_index < 512
     /\ call.pdpt_index < 512) =>
    /\ call.ret.panic = NoPanic
    /\ PageOffset(call.ret.address) = {}
    /\ address_to_page_map_indices(call.ret.address)
         = [pml4 |-> 511, pdpt |-> 511, pd |-> call.pml4_index, pt |-> call.pdpt_index]
    /\ \A k \in Pml4IndexSamples \cap 0..511, j \in Pml4IndexSamples \cap 0..511 :
         <<k, j>> # <<call.pml4_index, call.pdpt_index>> =>
           pd_mut(address, mem, "Active", k, j).address # call.ret.address

-----------------------------------------------------------------------------
(* Properties of set as a step of the page map (Spec).                     *)

\* What the leaf of v translates to in the tables m: the leaf entry, or
\* the all-zero value when v is not mapped.
Translation(m, v) == IF present(Path(address, m, v).pte) THEN Path(address, m, v).pte ELSE {}

\* C29: a call of set for v leaves the translation of every other virtual
\* page as it was: a page mapped before is mapped afterwards to the same
\* physical page with the same writable and execute-disable bits in its
\* leaf, and no page other than v becomes mapped.  A call that panics
\* changes no translation at all.
C29_SetLeavesOtherPagesAlone ==
  [][/\ \A v \in VirtualPages :
          (last'[v] # last[v] /\ last'[v].kind = "set") =>
            /\ \A w \in VirtualPages \ {v} : Translation(mem', w) = Translation(mem, w)
            /\ PresentLeaves(address, mem') \ {LeafIndices(v)}
                 = PresentLeaves(address, mem) \ {LeafIndices(v)}
            /\ \A leaf \in PresentLeaves(address, mem) \ {LeafIndices(v)} :
                 Translation(mem', VirtualPage(leaf[1], leaf[2], leaf[3], leaf[4]))
                   = Translation(mem, VirtualPage(leaf[1], leaf[2], leaf[3], leaf[4]))
     /\ panic' # NoPanic =>
          \A w \in VirtualPages : Translation(mem', w) = Translation(mem, w)
    ]_vars

\* A page has been mapped with other flags while another page was mapped.
C29_Witness ==
  /\ panic = NoPanic
  /\ \A v \in VirtualPages : last[v].kind = "set"
  /\ \E v \in VirtualPages, w \in VirtualPages :
       /\ last[v].flags = [writeable |-> TRUE, executable |-> TRUE]
       /\ last[w].flags = [writeable |-> FALSE, executable |-> FALSE]
       /\ ~writable(Path(address, mem, w).pte)
       /\ execute_disable(Path(address, mem, w).pte)

-----------------------------------------------------------------------------
(* The panic handler's write_u32 (kernel/src/panic.rs).  A u32 is the      *)
(* record [billions, rest] of the value billions * 10^9 + rest, so that no *)
(* number of the model exceeds 2^31; every divisor of the function divides *)
(* 10^9.                                                                   *)

\* n / divisor, for a divisor above 0
div_u32(n, divisor) == n.billions * (1000000000 \div divisor) + n.rest \div divisor

\* n % divisor
rem_u32(n, divisor) == [billions |-> 0, rest |-> n.rest % divisor]

DivideByZeroPanic == "attempt to divide by zero"

\* The `match quotient` of write_u32.
Digits == <<"0", "1", "2", "3", "4", "5", "6", "7", "8", "9">>

\* The values write_u32 is called with: 0, one to ten digits, powers of
\* ten, 2^31 and 2^32 - 1.
U32Samples ==
  {[billions |-> v[1], rest |-> v[2]] : v \in
     {<<0, 0>>, <<0, 1>>, <<0, 7>>, <<0, 10>>, <<0, 42>>, <<0, 100>>, <<0, 907>>,
      <<0, 1000>>, <<0, 65535>>, <<0, 100000>>, <<0, 999999999>>, <<1, 0>>, <<1, 1>>,
      <<2, 147483648>>, <<3, 5>>, <<4, 0>>, <<4, 294967295>>}}

InitWrite ==
  /\ address = {}
  /\ mem = EmptyTable
  /\ next_page = 0
  /\ panic = NoPanic
  /\ last = [v \in VirtualPages |-> NoSet]
  /\ call = [fn |-> "write_u32"]
  /\ pc = "loop"
  /\ trace = <<>>
  /\ status = "none"
  /\ kernel_info = [size |-> 0]
  /\ ram = EmptyTable
  /\ cpu = [interrupts |-> FALSE]
  /\ \E value \in U32Samples :
       locals = [fn |-> "write_u32", value |-> value, divisor |-> 1000000000, n |-> value,
                 started |-> FALSE, buffer |-> <<>>, result |-> "none"]

\* The body of `if quotient > 0 || started`: the digit is written, unless
\* the buffer rejects it, and the loop ends after the digit of the units.
WriteDigit(quotient, accepts) ==
  IF quotient > 9
  THEN /\ pc' = "unreachable_unchecked"
       /\ UNCHANGED locals
  ELSE IF ~accepts
  THEN /\ pc' = "returned"
       /\ locals' = [locals EXCEPT !.result = "Err"]
  ELSE IF locals.divisor = 1
  THEN /\ pc' = "returned"
       /\ locals' = [locals EXCEPT !.buffer = Append(@, Digits[quotient + 1]),
                                   !.started = TRUE, !.result = "Ok"]
  ELSE /\ pc' = "loop"
       /\ locals' = [locals EXCEPT !.buffer = Append(@, Digits[quotient + 1]),
                                   !.started = TRUE,
                                   !.n = rem_u32(locals.n, locals.divisor),
                                   !.divisor = locals.divisor \div 10]

\* One iteration of the loop of write_u32; the division comes first.
WriteU32Loop(accepts) ==
  /\ pc = "loop"
  /\ panic = NoPanic
  /\ IF locals.divisor = 0
     THEN /\ panic' = DivideByZeroPanic
          /\ UNCHANGED <<pc, locals>>
     ELSE /\ panic' = NoPanic
          /\ IF div_u32(locals.n, locals.divisor) > 0 \/ locals.started
             THEN WriteDigit(div_u32(locals.n, locals.divisor), accepts)
             ELSE /\ pc' = "loop"
                  /\ locals' = [locals EXCEPT !.divisor = locals.divisor \div 10]
  /\ trace' = Append(trace, pc)
  /\ UNCHANGED <<address, mem, next_page, last, call, status, kernel_info, ram, cpu>>

NextWrite == \E accepts \in BOOLEAN : WriteU32Loop(accepts)

SpecWrite == InitWrite /\ [][NextWrite]_vars

\* The decimal digits of a number below 2^31, without leading zeros.
RECURSIVE NatDigits(_)
NatDigits(k) ==
  IF k < 10 THEN <<Digits[k + 1]>>
  ELSE Append(NatDigits(k \div 10), Digits[(k % 10) + 1])

\* The decimal representation of a u32.
Decimal(value) ==
  IF value.billions = 0 THEN NatDigits(value.rest)
  ELSE <<Digits[value.billions + 1]>>
         \o [i \in 1..9 |-> Digits[((value.rest \div (10 ^ (9 - i))) % 10) + 1]]

\* C30: write_u32 never divides by zero and never reaches its unreachable
\* match arm, it returns after at most ten iterations, and when the buffer
\* has accepted every character it has written exactly the decimal
\* representation of the value without leading zeros, "0" for the value 0.
C30_WriteU32WritesDecimal ==
  call.fn = "write_u32" =>
    /\ panic # DivideByZeroPanic
    /\ pc # "unreachable_unchecked"
    /\ Len(trace) <= 10
    /\ (pc = "returned" /\ locals.result = "Ok") => locals.buffer = Decimal(locals.value)

====
